---- MODULE Spec2Model ----
(***************************************************************************)
(* State-machine model of the UNIVERSE simulation core (pipe-mode server,  *)
(* sim/src/main.c run_pipe_mode) and of the subsystems it drives: travel,  *)
(* events, replication, communication, society, snapshots.                 *)
(*                                                                         *)
(* Numeric conventions.  The C code computes in double/float; the model    *)
(* uses integers in fixed units so that every comparison the code makes    *)
(* is made on the same quantity:                                           *)
(*   positions, distances   micro light-years (LY units per light-year),   *)
(*                          all bodies on one axis, so |a-b| is exact      *)
(*   hull_integrity         thousandths (1000 = 1.0f)                      *)
(*   trust                  thousandths (1000 = 1.0f)                      *)
(*   resources, trade amt   grams (1000 = 1.0 kg)                          *)
(*   fuel_kg                units of 0.0001 kg                             *)
(*   energy_joules          megajoules (1 = 1.0e6 J)                       *)
(*   replication progress   ticks_elapsed / ticks_total (exact rational)   *)
(* The master PRNG (xoshiro256ss) is identified by (seed, number of draws   *)
(* since seeding): its transition is a bijection of full period, so two    *)
(* generator states of one seed are equal iff their draw counts are.  The  *)
(* value of draw number pos is RngOut(seed, pos), reduced to 0..999999.    *)
(***************************************************************************)
EXTENDS Integers, Naturals, Sequences, FiniteSets, TLC

VARIABLES
    uni,              \* universe_t: tick, seed, probes[0..probe_count)
    rng,              \* master rng_t of run_pipe_mode
    g_pipe_repl,      \* replication_state_t per probe-table index
    g_pipe_lineage,   \* lineage_tree_t
    g_pipe_comm,      \* comm_system_t: messages, relays
    g_pipe_society,   \* society_t: trades
    g_pipe_events,    \* event_system_t: event log
    g_pipe_inject,    \* injection_queue_t
    g_pipe_scenario,  \* scenario_event_t table of scheduled injections
    g_pipe_snap,      \* snapshot_t[MAX_SNAP_SLOTS]
    g_pipe_sys_cache, \* cached system_t: planets' survey flags
    survey,           \* probe.c file-static survey_body_id/level/ticks_remaining
    resp,             \* last tick response: the emitted observations
    hist              \* history of the run (commands issued, values observed)

vars == << uni, rng, g_pipe_repl, g_pipe_lineage, g_pipe_comm, g_pipe_society,
           g_pipe_events, g_pipe_inject, g_pipe_scenario, g_pipe_snap, g_pipe_sys_cache,
           survey, resp, hist >>

----------------------------------------------------------------------------
(* Bounds of the model *)

MaxProbes == 3        \* capacity of the probe table (MAX_PROBES, scaled)
MaxTick == 4          \* ticks explored by the command-level specifications
MaxInject == 2        \* capacity of the injection queue (MAX_INJECTED_EVENTS, scaled)
MaxEventLog == 6      \* capacity of the event log (MAX_EVENT_LOG, scaled)
MaxMessages == 2      \* capacity of the message queue (MAX_MESSAGES, scaled)
MaxTrades == 2        \* capacity of the trade table (MAX_TRADES, scaled)
MaxRelationships == 1 \* per-probe relationship slots (MAX_RELATIONSHIPS, scaled)
MaxLineage == 2       \* capacity of the lineage tree (MAX_LINEAGE, scaled)
MaxRelays == 2        \* capacity of the relay table (MAX_RELAYS, scaled)
MaxProposals == 2     \* capacity of the proposal table (MAX_PROPOSALS, scaled)
MaxVotesPer == 2      \* votes a proposal can hold (MAX_VOTES_PER, scaled)
MaxClaims == 2        \* capacity of the claim table (MAX_CLAIMS, scaled)
WornHull == 100        \* hull left (thousandths) where a worn run is picked up
MaxCommSteps == 5     \* commands issued in a run of the messaging specification
MaxSteps == 4         \* commands issued in a run of the command-level specifications

----------------------------------------------------------------------------
(* Program constants *)

LY == 1000 * 1000              \* model units per light-year
TICKS_PER_CYCLE == 365
MAX_SNAP_SLOTS == 2
REPL_BASE_TICKS == 200
TRADE_TRANSIT_TICKS == 100
VOTE_DEADLINE_TICKS == 100     \* a proposal made by order closes 100 ticks later
MICROMETEORITE_CHANCE == 500   \* 0.0005 of 1000000
MICROMETEORITE_DMG == 5        \* 0.005 hull
FUEL_BURN_PER_LY_KG == 5000    \* 0.5 kg per ly, in 0.0001 kg
MIN_FUEL_FOR_TRAVEL == 100000  \* 10.0 kg
BOB_INITIAL_FUEL_KG == 500000000
BOB_INITIAL_ENERGY_J == 1000000 \* 1.0e12 J
FUSION_FUEL_PER_TICK == 1      \* 0.001 kg of hydrogen, in grams
FUSION_EFFICIENCY == 630000    \* 6.3e14 J/kg, per gram of hydrogen
ENERGY_IDLE_PER_TICK == 1      \* 1.0e6 J
ENERGY_SURVEY_PER_TICK == 100  \* 1.0e8 J
COMM_ENERGY_TARGETED == 1      \* 1000 J: the guard on whole units of energy
COMM_BASE_RANGE_LY == 5
COMM_RANGE_PER_LEVEL == 5
RELAY_RANGE_LY == 20
FREQ_DISCOVERY == 5000         \* per-tick probabilities of 1000000
FREQ_ANOMALY == 1000
FREQ_HAZARD == 2000
FREQ_ENCOUNTER == 200
FREQ_CRISIS == 50
FREQ_WONDER == 300
MAX_EVENTS_PER_TICK == 8
TRUST_TECH_SHARE == 80
TRUST_CLAIM_VIOLATION == -100

Resources == {"iron", "silicon", "rare_earth", "water", "hydrogen",
              "helium3", "carbon", "uranium", "exotic"}

TechDomains == {"propulsion", "sensors", "mining", "construction", "computing",
                "energy", "materials", "communication", "weapons", "biotech"}

REPL_COSTS == [r \in Resources |->
    CASE r = "iron"       -> 200000000
      [] r = "silicon"    -> 100000000
      [] r = "rare_earth" -> 50000000
      [] r = "water"      -> 50000000
      [] r = "hydrogen"   -> 15000000
      [] r = "helium3"    -> 5000000
      [] r = "carbon"     -> 50000000
      [] r = "uranium"    -> 25000000
      [] r = "exotic"     -> 5000000]

SURVEY_TICKS == << 10, 25, 50, 100, 200 >>

\* probe_uid_t {hi, lo}
uid_null == << 0, 0 >>

----------------------------------------------------------------------------
(* Small helpers *)

Abs(x) == IF x < 0 THEN -x ELSE x

Min(a, b) == IF a < b THEN a ELSE b

Max(a, b) == IF a > b THEN a ELSE b

\* distance between two positions on the model's axis
vec3_dist(a, b) == Abs(a - b)

clampf(v, lo, hi) == IF v < lo THEN lo ELSE IF v > hi THEN hi ELSE v

----------------------------------------------------------------------------
(* The galaxy the probes move in: generate_sector's output for the seed.   *)
(* Two systems of sector (0,0,0), one planet each, none habitable.         *)

SYS_A == << 0, 101 >>

SYS_B == << 0, 102 >>

Systems == {SYS_A, SYS_B}

\* system_t.position
SysPos(s) == IF s = SYS_A THEN 6000 ELSE 7000

\* planet ids of a system (planet_t.id)
PlanetOf(s) == << 1, s[2] >>

Planets == {PlanetOf(s) : s \in Systems}

SurveyLevels == 0..4

\* a freshly generated system_t: nothing surveyed
FreshSystem(s) ==
    [planets |-> [b \in {PlanetOf(s)} |->
        [surveyed |-> [l \in SurveyLevels |-> FALSE], discovered_by |-> uid_null]]]

----------------------------------------------------------------------------
(* PRNG (rng.c) *)

\* Value of draw number pos of the stream seeded with seed, reduced to
\* 0..999999.  Most draws are large; about one in sixteen is small enough
\* to pass a frequency test.
RngOut(seed, pos) ==
    LET v == (pos * pos * 31 + pos * 17 + seed * 7) % 64
    IN IF v < 4 THEN v * 13 ELSE 500000 + v * 1000 + ((v * 157) % 1000)

rng_seed(seed) == [seed |-> seed, pos |-> 0]

\* state of the generator after one more draw
rng_next(r) == [r EXCEPT !.pos = @ + 1]

\* value returned by the draw that rng_next(r) consumes
rng_value(r) == RngOut(r.seed, r.pos)

\* n successive rng_next calls whose values do not reach the model
rng_skip(r, n) == [r EXCEPT !.pos = @ + n]

\* generate_uid: two draws, (hi, lo): [uid, rng]
generate_uid(r) ==
    [uid |-> << rng_value(r), rng_value(rng_next(r)) >>, rng |-> rng_skip(r, 2)]

----------------------------------------------------------------------------
(* Probes (universe.h probe_t, probe.c) *)

BOB_ID == << 1, 1 >>

probe_init_bob ==
    [ id |-> BOB_ID, parent_id |-> uid_null, generation |-> 0,
      system_id |-> uid_null, body_id |-> uid_null,
      location_type |-> "in_system",
      speed_c |-> 0, heading |-> 0, destination |-> 0,
      travel_remaining_ly |-> 0,
      resources |-> [r \in Resources |-> 0],
      energy_joules |-> BOB_INITIAL_ENERGY_J,
      fuel_kg |-> BOB_INITIAL_FUEL_KG,
      hull_integrity |-> 1000,
      tech_levels |-> [d \in TechDomains |->
          CASE d \in {"propulsion", "sensors", "energy"} -> 3
            [] d \in {"mining", "construction", "materials", "communication"} -> 2
            [] d = "computing" -> 4
            [] OTHER -> 1],
      max_speed_c |-> 150,        \* 0.15 c, in thousandths
      sensor_range_ly |-> 20,     \* light-years
      mining_rate |-> 1,
      construction_rate |-> 10,   \* 1.0, in tenths
      compute_capacity |-> 100,
      quirk_count |-> 3,
      relationships |-> << >>,
      status |-> "active" ]

\* index of the probe with this id in the probe table, 0 if absent
find_probe_idx(u, id) ==
    IF \E i \in 1..Len(u.probes) : u.probes[i].id = id
    THEN CHOOSE i \in 1..Len(u.probes) :
            /\ u.probes[i].id = id
            /\ \A j \in 1..(i - 1) : u.probes[j].id # id
    ELSE 0

----------------------------------------------------------------------------
(* Energy housekeeping (probe.c) *)

\* hydrogen is held in grams, fuel in 0.0001 kg: 1 g = 10 fuel units
probe_tick_energy(p) ==
    LET h2_available == p.resources["hydrogen"]
        total_h2 == h2_available * 10 + p.fuel_kg
        h2_to_burn == Min(FUSION_FUEL_PER_TICK * 10, total_h2)
        burnt == IF h2_available * 10 >= h2_to_burn
                 THEN [p EXCEPT !.resources["hydrogen"] = @ - (h2_to_burn \div 10)]
                 ELSE [p EXCEPT !.resources["hydrogen"] = 0,
                                !.fuel_kg = Max(@ - (h2_to_burn - h2_available * 10), 0)]
        gained == burnt.energy_joules + (h2_to_burn * FUSION_EFFICIENCY) \div 10
    IN IF total_h2 <= 0 THEN p
       ELSE [burnt EXCEPT !.energy_joules = Max(gained - ENERGY_IDLE_PER_TICK, 0)]

----------------------------------------------------------------------------
(* Travel (travel.c) *)

\* order = [target_pos, target_system_id]
travel_initiate(p, order) ==
    LET dist == vec3_dist(p.heading, order.target_pos)
        fuel_needed == (dist * (FUEL_BURN_PER_LY_KG \div 100)) \div (LY \div 100)
    IN IF p.status = "traveling" THEN p
       ELSE IF dist < LY \div 1000 THEN p
       ELSE IF p.fuel_kg < MIN_FUEL_FOR_TRAVEL /\ fuel_needed > p.fuel_kg THEN p
       ELSE [p EXCEPT !.status = "traveling",
                      !.location_type = "interstellar",
                      !.speed_c = p.max_speed_c,
                      !.travel_remaining_ly = dist,
                      !.destination = order.target_pos,
                      !.system_id = order.target_system_id]

\* a travel tick that burns no fuel and covers no distance
travel_tick_becalmed(p, r) == [probe |-> p, rng |-> r]

\* one travel tick of probe p, drawing from generator r: [probe, rng]
travel_tick(p, r) ==
    LET ly_per_tick == (p.speed_c * (LY \div 1000)) \div TICKS_PER_CYCLE
        fuel_cost == (ly_per_tick * (FUEL_BURN_PER_LY_KG \div 100)) \div (LY \div 100)
        remaining == p.travel_remaining_ly - ly_per_tick
        total_dist == vec3_dist(p.heading, p.destination)
        step == Min(ly_per_tick, total_dist)
        moved == IF remaining > 0 /\ total_dist > LY \div 1000
                 THEN IF p.destination >= p.heading
                      THEN p.heading + step ELSE p.heading - step
                 ELSE p.heading
        roll == rng_value(r)
        hull == IF roll < MICROMETEORITE_CHANCE
                THEN Max(p.hull_integrity - MICROMETEORITE_DMG, 0)
                ELSE p.hull_integrity
        burnt == [p EXCEPT !.fuel_kg = @ - fuel_cost,
                           !.travel_remaining_ly = remaining,
                           !.heading = moved,
                           !.hull_integrity = hull]
    IN IF p.status # "traveling" THEN [probe |-> p, rng |-> r]
       ELSE IF p.fuel_kg < fuel_cost
       THEN [probe |-> [p EXCEPT !.fuel_kg = 0, !.status = "dormant", !.speed_c = 0],
             rng |-> r]
       ELSE IF remaining <= 0
       THEN [probe |-> [burnt EXCEPT !.travel_remaining_ly = 0,
                                     !.status = "active",
                                     !.location_type = "in_system",
                                     !.heading = p.destination,
                                     !.speed_c = 0],
             rng |-> rng_next(r)]
       ELSE [probe |-> burnt, rng |-> rng_next(r)]

----------------------------------------------------------------------------
(* Events (events.c) *)

EventTypes == {"discovery", "anomaly", "hazard", "encounter", "crisis", "wonder"}

HAZ_SOLAR_FLARE == 0

HAZ_ASTEROID_COLLISION == 1

HAZ_RADIATION_BURST == 2

MAX_ANOMALIES == 256

events_init == [events |-> << >>, anomaly_count |-> 0, pending |-> << >>]

hazard_solar_flare(p, severity) ==
    LET base_damage == 100 + (severity * 200) \div 1000
        reduction == p.tech_levels["materials"] * 20
        damage == Max(base_damage - reduction, 10)
    IN [p EXCEPT !.hull_integrity = Max(@ - damage, 0)]

hazard_asteroid(p, severity) ==
    LET damage == 50 + (severity * 200) \div 1000
    IN [p EXCEPT !.hull_integrity = Max(@ - damage, 0)]

\* damages compute_capacity only, by 0.05 to 0.2 of its 100 or more: less
\* than the unit in which the model holds that field
hazard_radiation(p, severity) == p

log_event(es, type, subtype, probe_id, tick, severity) ==
    IF Len(es.events) >= MaxEventLog THEN es
    ELSE [es EXCEPT !.events = Append(@,
            [type |-> type, subtype |-> subtype, probe_id |-> probe_id,
             tick |-> tick, severity |-> severity])]

\* events_generate on probe p with event system es and generator r;
\* has_planets: the system pointer is non-null and has a planet
events_generate(es, p, type, subtype, has_planets, tick, r) ==
    LET raw == rng_value(r) % 1000
        r1 == rng_next(r)
        severity ==
            CASE type = "discovery" -> 200 + (raw * 3) \div 10
              [] type = "hazard"    -> 300 + (raw * 7) \div 10
              [] type = "anomaly"   -> 300 + (raw * 4) \div 10
              [] type = "wonder"    -> 400 + (raw * 3) \div 10
              [] type = "crisis"    -> 600 + (raw * 4) \div 10
              [] type = "encounter" -> 500 + (raw * 4) \div 10
              [] OTHER -> raw
        p1 == CASE type = "hazard" /\ subtype = HAZ_SOLAR_FLARE ->
                      hazard_solar_flare(p, severity)
                [] type = "hazard" /\ subtype = HAZ_ASTEROID_COLLISION ->
                      hazard_asteroid(p, severity)
                [] type = "hazard" /\ subtype = HAZ_RADIATION_BURST ->
                      hazard_radiation(p, severity)
                [] type = "crisis" ->
                      [p EXCEPT !.hull_integrity = Max(@ - severity \div 10, 0)]
                [] OTHER -> p
        marks == type = "anomaly" /\ es.anomaly_count < MAX_ANOMALIES
        \* anomaly marker: generate_uid (two draws), one more to pick a planet
        r2 == IF marks
              THEN IF has_planets THEN rng_next(rng_next(rng_next(r1)))
                   ELSE rng_next(rng_next(r1))
              ELSE r1
        es1 == IF marks THEN [es EXCEPT !.anomaly_count = @ + 1] ELSE es
    IN IF type \notin EventTypes
       THEN [es |-> es, probe |-> p, rng |-> r1]
       ELSE [es |-> log_event(es1, type, subtype, p.id, tick, severity),
             probe |-> p1, rng |-> r2]

rolls == << [type |-> "discovery", freq |-> FREQ_DISCOVERY, subtype_count |-> 4],
            [type |-> "anomaly",   freq |-> FREQ_ANOMALY,   subtype_count |-> 3],
            [type |-> "hazard",    freq |-> FREQ_HAZARD,    subtype_count |-> 3],
            [type |-> "encounter", freq |-> FREQ_ENCOUNTER, subtype_count |-> 1],
            [type |-> "crisis",    freq |-> FREQ_CRISIS,    subtype_count |-> 3],
            [type |-> "wonder",    freq |-> FREQ_WONDER,    subtype_count |-> 4] >>

\* the roll loop of events_tick_probe from roll i on; st = [es, probe, rng]
RECURSIVE events_roll(_, _, _, _, _)
events_roll(st, i, generated, has_planets, tick) ==
    IF i > Len(rolls) \/ generated >= MAX_EVENTS_PER_TICK THEN st
    ELSE LET roll == rng_value(st.rng)
             r1 == rng_next(st.rng)
         IN IF roll < rolls[i].freq
            THEN LET subtype == rng_value(r1) % rolls[i].subtype_count
                     g == events_generate(st.es, st.probe, rolls[i].type, subtype,
                                          has_planets, tick, rng_next(r1))
                 IN events_roll(g, i + 1, generated + 1, has_planets, tick)
            ELSE events_roll([st EXCEPT !.rng = r1], i + 1, generated,
                             has_planets, tick)

\* sys_known: current_system is non-null
events_tick_probe(es, p, sys_known, tick, r) ==
    IF ~sys_known \/ p.status = "destroyed"
    THEN [es |-> es, probe |-> p, rng |-> r]
    ELSE events_roll([es |-> es, probe |-> p, rng |-> r], 1, 0, TRUE, tick)

----------------------------------------------------------------------------
(* Replication (replicate.c) *)

MAX_QUIRKS == 8

TRAIT_COUNT == 10

\* a zeroed replication_state_t
repl_zero == [active |-> FALSE, ticks_elapsed |-> 0, ticks_total |-> 0,
              consciousness_forked |-> FALSE]

repl_check_resources(parent) ==
    \A r \in Resources : parent.resources[r] >= REPL_COSTS[r]

\* [rc, probe, state]
repl_begin(parent, state) ==
    IF parent.status = "replicating" \/ ~repl_check_resources(parent)
    THEN [rc |-> -1, probe |-> parent, state |-> state]
    ELSE [rc |-> 0, probe |-> [parent EXCEPT !.status = "replicating"],
          state |-> [active |-> TRUE, ticks_elapsed |-> 0,
                     ticks_total |-> REPL_BASE_TICKS,
                     consciousness_forked |-> FALSE]]

\* progress >= permille/1000, progress being ticks_elapsed / ticks_total
repl_progress_at_least(state, permille) ==
    state.ticks_elapsed * 1000 >= permille * state.ticks_total

\* [rc, probe, state]
repl_tick(parent, state) ==
    LET st1 == [state EXCEPT !.ticks_elapsed = @ + 1]
        drawn == [parent EXCEPT !.resources = [r \in Resources |->
                    Max(parent.resources[r] - REPL_COSTS[r] \div state.ticks_total, 0)]]
        st2 == [st1 EXCEPT !.consciousness_forked =
                    @ \/ repl_progress_at_least(st1, 800)]
    IN IF ~state.active THEN [rc |-> -1, probe |-> parent, state |-> state]
       ELSE [rc |-> IF repl_progress_at_least(st1, 1000) THEN 1 ELSE 0,
             probe |-> drawn, state |-> st2]

\* quirk_inherit from quirk i of the parent on: [count, rng]
RECURSIVE quirk_loop(_, _, _, _)
quirk_loop(i, parent_count, count, r) ==
    IF i > parent_count THEN [count |-> count, rng |-> r]
    ELSE LET roll == rng_value(r) % 1000
             r1 == rng_next(r)
         IN IF roll < 700
            THEN quirk_loop(i + 1, parent_count, Min(count + 1, MAX_QUIRKS), r1)
            ELSE IF roll < 800
            THEN IF count < MAX_QUIRKS
                 THEN quirk_loop(i + 1, parent_count, count + 1, rng_next(r1))
                 ELSE quirk_loop(i + 1, parent_count, count, r1)
            ELSE quirk_loop(i + 1, parent_count, count, r1)

quirk_inherit(parent, r) ==
    LET q == quirk_loop(1, parent.quirk_count, 0, r)
        roll == rng_value(q.rng) % 100
        r1 == rng_next(q.rng)
    IN IF roll < 15 /\ q.count < MAX_QUIRKS
       THEN [count |-> q.count + 1, rng |-> rng_next(r1)]
       ELSE [count |-> q.count, rng |-> r1]

\* [rc, parent, child, state, rng]; child is the zeroed record filled in
repl_finalize(parent, state, r) ==
    LET g == generate_uid(r)
        \* name_generate_child: two draws; personality_mutate: one gaussian
        \* (two draws) per trait and one for the drift rate
        r1 == rng_skip(g.rng, 2 + 2 * (TRAIT_COUNT + 1))
        q == quirk_inherit(parent, r1)
        child == [ id |-> g.uid, parent_id |-> parent.id,
                   generation |-> parent.generation + 1,
                   system_id |-> parent.system_id, body_id |-> parent.body_id,
                   location_type |-> parent.location_type,
                   speed_c |-> 0, heading |-> parent.heading, destination |-> 0,
                   travel_remaining_ly |-> 0,
                   resources |-> [x \in Resources |-> 0],
                   energy_joules |-> (parent.energy_joules * 3) \div 10,
                   fuel_kg |-> (parent.fuel_kg * 3) \div 10,
                   hull_integrity |-> 1000,
                   tech_levels |-> parent.tech_levels,
                   max_speed_c |-> parent.max_speed_c,
                   sensor_range_ly |-> parent.sensor_range_ly,
                   mining_rate |-> parent.mining_rate,
                   construction_rate |-> parent.construction_rate,
                   compute_capacity |-> parent.compute_capacity,
                   quirk_count |-> q.count,
                   relationships |-> << >>,
                   status |-> "active" ]
    IN IF ~state.active \/ ~repl_progress_at_least(state, 999)
       THEN [rc |-> -1, parent |-> parent, child |-> parent, state |-> state,
             rng |-> r]
       ELSE [rc |-> 0, parent |-> [parent EXCEPT !.status = "active"],
             child |-> child, state |-> [state EXCEPT !.active = FALSE],
             rng |-> q.rng]

lineage_record(tree, parent_id, child_id, tick, generation) ==
    IF Len(tree) >= MaxLineage THEN tree
    ELSE Append(tree, [parent_id |-> parent_id, child_id |-> child_id,
                       birth_tick |-> tick, generation |-> generation])

----------------------------------------------------------------------------
(* Communication (communicate.c) *)

comm_init == [messages |-> << >>, relays |-> << >>]

\* the position the communication code uses for a probe
probe_pos(p) == p.destination

comm_range(p) ==
    (COMM_BASE_RANGE_LY + COMM_RANGE_PER_LEVEL * p.tech_levels["communication"]) * LY

\* (uint64_t)(dist * 365.0 + 0.5)
comm_light_delay(from, to) ==
    LET d == vec3_dist(from, to)
    IN TICKS_PER_CYCLE * (d \div LY) + ((d % LY) * TICKS_PER_CYCLE + LY \div 2) \div LY

\* the relaxation loop of comm_relay_path_distance: iter iterations done,
\* dist_to[i] = -1 while relay i is unreached
RECURSIVE relay_relax(_, _, _, _, _)
relay_relax(relays, to, dist_to, visited, iter) ==
    LET n == Len(relays)
        cand == {i \in 1..n : i \notin visited /\ dist_to[i] > 0}
        best == CHOOSE i \in cand :
                    \A j \in cand : dist_to[i] < dist_to[j]
                                    \/ (dist_to[i] = dist_to[j] /\ i <= j)
        to_target == vec3_dist(relays[best].position, to)
        relaxed == [j \in 1..n |->
            IF j \in visited \/ j = best \/ ~relays[j].active THEN dist_to[j]
            ELSE LET d == vec3_dist(relays[best].position, relays[j].position)
                     new_dist == dist_to[best] + d
                 IN IF d <= relays[best].range_ly
                       /\ (dist_to[j] < 0 \/ new_dist < dist_to[j])
                    THEN new_dist ELSE dist_to[j]]
    IN IF iter >= n \/ cand = {} THEN -1
       ELSE IF to_target <= relays[best].range_ly THEN dist_to[best] + to_target
       ELSE relay_relax(relays, to, relaxed, visited \cup {best}, iter + 1)

comm_relay_path_distance(cs, from, to, direct_range) ==
    LET direct == vec3_dist(from, to)
        n == Len(cs.relays)
        dist_to == [i \in 1..n |->
            IF cs.relays[i].active
               /\ vec3_dist(from, cs.relays[i].position) <= direct_range
            THEN vec3_dist(from, cs.relays[i].position) ELSE -1]
    IN IF direct <= direct_range THEN direct
       ELSE IF n = 0 THEN -1
       ELSE relay_relax(cs.relays, to, dist_to, {}, 0)

comm_check_reachable(cs, sender, target_pos) ==
    LET range == comm_range(sender)
        from == probe_pos(sender)
        direct == vec3_dist(from, target_pos)
    IN IF direct <= range THEN direct
       ELSE comm_relay_path_distance(cs, from, target_pos, range)

\* a send that times the message by the length of the path it found
comm_send_targeted_by_path(cs, sender, target_id, target_pos, content, current_tick) ==
    LET eff_dist == comm_check_reachable(cs, sender, target_pos)
        delay == comm_light_delay(0, eff_dist)
        m == [sender_id |-> sender.id, target_id |-> target_id,
              content |-> content, sent_tick |-> current_tick,
              arrival_tick |-> current_tick + delay, status |-> "in_transit"]
    IN IF \/ Len(cs.messages) >= MaxMessages
          \/ sender.energy_joules < COMM_ENERGY_TARGETED
          \/ eff_dist < 0
       THEN [rc |-> -1, cs |-> cs, probe |-> sender]
       ELSE [rc |-> 0, cs |-> [cs EXCEPT !.messages = Append(@, m)],
             probe |-> sender]

\* [rc, cs, probe]; the 1000 J spent are below the unit of energy_joules
comm_send_targeted(cs, sender, target_id, target_pos, content, current_tick) ==
    LET from == probe_pos(sender)
        delay == comm_light_delay(from, target_pos)
        m == [sender_id |-> sender.id, target_id |-> target_id,
              content |-> content, sent_tick |-> current_tick,
              arrival_tick |-> current_tick + delay, status |-> "in_transit"]
    IN IF \/ Len(cs.messages) >= MaxMessages
          \/ sender.energy_joules < COMM_ENERGY_TARGETED
          \/ comm_check_reachable(cs, sender, target_pos) < 0
       THEN [rc |-> -1, cs |-> cs, probe |-> sender]
       ELSE [rc |-> 0, cs |-> [cs EXCEPT !.messages = Append(@, m)],
             probe |-> sender]

comm_tick_deliver(cs, current_tick) ==
    [cs EXCEPT !.messages = [i \in 1..Len(cs.messages) |->
        IF cs.messages[i].status = "in_transit"
           /\ cs.messages[i].arrival_tick <= current_tick
        THEN [cs.messages[i] EXCEPT !.status = "delivered"]
        ELSE cs.messages[i]]]

\* delivered messages addressed to the probe, in queue order
comm_get_inbox(cs, probe_id) ==
    SelectSeq(cs.messages,
              LAMBDA m : m.status = "delivered" /\ m.target_id = probe_id)

comm_build_relay(cs, owner, system_id, current_tick) ==
    IF Len(cs.relays) >= MaxRelays THEN cs
    ELSE [cs EXCEPT !.relays = Append(@,
            [owner_id |-> owner.id, system_id |-> system_id,
             position |-> probe_pos(owner), built_tick |-> current_tick,
             active |-> TRUE, range_ly |-> RELAY_RANGE_LY * LY])]

----------------------------------------------------------------------------
(* Society (society.c) *)

society_init ==
    [trades |-> << >>, claims |-> << >>, structures |-> << >>, proposals |-> << >>]

\* structure_type_t
STRUCT_RELAY_SATELLITE == 1
STRUCT_OBSERVATORY == 2
STRUCT_TYPE_COUNT == 6

\* capacity of the structure table (MAX_STRUCTURES, scaled with the relay table)
MaxStructures == MaxRelays

\* base_ticks of SPECS, by structure type + 1
SPECS_base_ticks == << 100, 50, 80, 300, 400, 200 >>

\* society_build_speed_mult, in tenths
society_build_speed_mult(builder_count) ==
    IF builder_count <= 0 THEN 0
    ELSE IF builder_count = 1 THEN 10
    ELSE 10 + 6 * (builder_count - 1)

\* the society after society_build_start by builder; rng advanced by the id
society_build_start(soc, builder, type, system_id, current_tick, r) ==
    IF Len(soc.structures) >= MaxStructures THEN [soc |-> soc, rng |-> r]
    ELSE LET g == generate_uid(r)
         IN [soc |-> [soc EXCEPT !.structures = Append(@,
                        [id |-> g.uid, type |-> type, system_id |-> system_id,
                         builder_ids |-> << builder.id >>, builder_count |-> 1,
                         build_ticks_total |-> SPECS_base_ticks[type + 1],
                         build_ticks_elapsed |-> 0, complete |-> FALSE,
                         active |-> FALSE, started_tick |-> current_tick,
                         completed_tick |-> 0])],
             rng |-> g.rng]

\* one tick of construction on every unfinished structure
society_build_tick(soc, current_tick) ==
    [soc EXCEPT !.structures = [i \in 1..Len(soc.structures) |->
        LET st == soc.structures[i]
        IN IF st.complete THEN st
           ELSE IF (st.build_ticks_elapsed + 1)
                       * society_build_speed_mult(st.builder_count)
                     >= st.build_ticks_total * 10
           THEN [st EXCEPT !.build_ticks_elapsed = @ + 1, !.complete = TRUE,
                           !.active = TRUE, !.completed_tick = current_tick]
           ELSE [st EXCEPT !.build_ticks_elapsed = @ + 1]]]

\* index of a's relationship toward b_id, 0 if none
find_relationship(a, b_id) ==
    IF \E i \in 1..Len(a.relationships) : a.relationships[i].other_id = b_id
    THEN CHOOSE i \in 1..Len(a.relationships) :
            /\ a.relationships[i].other_id = b_id
            /\ \A j \in 1..(i - 1) : a.relationships[j].other_id # b_id
    ELSE 0

disposition_of(trust) ==
    IF trust > 500 THEN 1
    ELSE IF trust > 200 THEN 2
    ELSE IF trust > -200 THEN 2
    ELSE IF trust > -500 THEN 3
    ELSE 4

\* one direction of society_update_trust: get_or_create_rel(a, b_id), then
\* the clamped update; a is returned unchanged when no slot is available
update_trust_toward(a, b_id, delta) ==
    LET idx == find_relationship(a, b_id)
        bump(r) == [r EXCEPT !.trust = clampf(r.trust + delta, -1000, 1000),
                             !.disposition =
                                 disposition_of(clampf(r.trust + delta, -1000, 1000))]
    IN IF idx > 0
       THEN [a EXCEPT !.relationships[idx] = bump(@)]
       ELSE IF Len(a.relationships) >= MaxRelationships THEN a
       ELSE [a EXCEPT !.relationships = Append(@,
                bump([other_id |-> b_id, trust |-> 0, disposition |-> 2]))]

\* society_update_trust on table entries ia and ib of the probe table
society_update_trust(probes, ia, ib, delta) ==
    LET p1 == [probes EXCEPT ![ia] = update_trust_toward(@, probes[ib].id, delta)]
    IN [p1 EXCEPT ![ib] = update_trust_toward(@, p1[ia].id, delta)]

society_get_trust(a, b_id) ==
    IF find_relationship(a, b_id) = 0 THEN 0
    ELSE a.relationships[find_relationship(a, b_id)].trust

\* [soc, probes]: the sender is table entry is, the receiver entry ir
society_trade_send(soc, probes, is, ir, resource, amount, same_system, current_tick) ==
    IF Len(soc.trades) >= MaxTrades \/ probes[is].resources[resource] < amount
    THEN [soc |-> soc, probes |-> probes]
    ELSE [soc |-> [soc EXCEPT !.trades = Append(@,
                    [sender_id |-> probes[is].id, receiver_id |-> probes[ir].id,
                     resource |-> resource, amount |-> amount,
                     status |-> "in_transit", sent_tick |-> current_tick,
                     same_system |-> same_system,
                     arrival_tick |-> IF same_system THEN current_tick
                                      ELSE current_tick + TRADE_TRANSIT_TICKS])],
          probes |-> [probes EXCEPT ![is].resources[resource] = @ - amount]]

\* society_trade_tick from trade i on: [soc, probes]
RECURSIVE trade_tick_from(_, _, _, _)
trade_tick_from(soc, probes, i, current_tick) ==
    IF i > Len(soc.trades) THEN [soc |-> soc, probes |-> probes]
    ELSE LET t == soc.trades[i]
             p == find_probe_idx([probes |-> probes], t.receiver_id)
         IN IF t.status # "in_transit" \/ current_tick < t.arrival_tick \/ p = 0
            THEN trade_tick_from(soc, probes, i + 1, current_tick)
            ELSE trade_tick_from(
                    [soc EXCEPT !.trades[i].status = "delivered"],
                    [probes EXCEPT ![p].resources[t.resource] = @ + t.amount],
                    i + 1, current_tick)

\* a delivery sweep that does not wait for the transit to end
society_trade_tick_early(soc, probes, current_tick) ==
    trade_tick_from(soc, probes, 1, current_tick + TRADE_TRANSIT_TICKS)

society_trade_tick(soc, probes, current_tick) ==
    trade_tick_from(soc, probes, 1, current_tick)

\* the derived stats the research pass computes from the tech levels tl
derived_stats(tl) ==
    [max_speed_c |-> 100 + 20 * tl["propulsion"],
     sensor_range_ly |-> 5 + 2 * tl["sensors"],
     mining_rate |-> 100 + 50 * tl["mining"],
     construction_rate |-> 10 + 5 * tl["construction"],
     compute_capacity |-> 100 + 50 * tl["computing"]]

\* the derived stats probe p carries
stats_of(p) ==
    [max_speed_c |-> p.max_speed_c, sensor_range_ly |-> p.sensor_range_ly,
     mining_rate |-> p.mining_rate, construction_rate |-> p.construction_rate,
     compute_capacity |-> p.compute_capacity]

\* probe p when its research in domain d completes: the level goes up by one
\* and the derived stats are recomputed
research_complete(p, d) ==
    IF p.tech_levels[d] >= 255 THEN p
    ELSE LET tl == [p.tech_levels EXCEPT ![d] = @ + 1]
         IN [p EXCEPT !.tech_levels = tl,
                      !.max_speed_c = derived_stats(tl).max_speed_c,
                      !.sensor_range_ly = derived_stats(tl).sensor_range_ly,
                      !.mining_rate = derived_stats(tl).mining_rate,
                      !.construction_rate = derived_stats(tl).construction_rate,
                      !.compute_capacity = derived_stats(tl).compute_capacity]

\* the receiver after society_share_tech from sender
society_share_tech(sender, receiver, domain) ==
    IF sender.tech_levels[domain] <= receiver.tech_levels[domain] THEN receiver
    ELSE [receiver EXCEPT !.tech_levels[domain] = sender.tech_levels[domain]]

\* the society after society_propose; the proposal table starts at index 0
society_propose(soc, proposer_id, text, current_tick, deadline_tick) ==
    IF Len(soc.proposals) >= MaxProposals THEN soc
    ELSE [soc EXCEPT !.proposals = Append(@,
            [proposer_id |-> proposer_id, text |-> text,
             proposed_tick |-> current_tick, deadline_tick |-> deadline_tick,
             status |-> "open", votes |-> << >>, votes_for |-> 0,
             votes_against |-> 0, result |-> FALSE])]

\* a vote that is recorded without looking for an earlier vote of the voter
society_vote_unchecked(soc, proposal_idx, voter_id, in_favor, tick) ==
    IF proposal_idx < 0 \/ proposal_idx >= Len(soc.proposals) THEN soc
    ELSE IF soc.proposals[proposal_idx + 1].status # "open" THEN soc
    ELSE IF Len(soc.proposals[proposal_idx + 1].votes) >= MaxVotesPer THEN soc
    ELSE [soc EXCEPT !.proposals[proposal_idx + 1] =
            [@ EXCEPT !.votes = Append(@, [voter_id |-> voter_id,
                                           in_favor |-> in_favor, vote_tick |-> tick]),
                      !.votes_for = IF in_favor THEN @ + 1 ELSE @,
                      !.votes_against = IF in_favor THEN @ ELSE @ + 1]]

society_vote(soc, proposal_idx, voter_id, in_favor, tick) ==
    IF proposal_idx < 0 \/ proposal_idx >= Len(soc.proposals) THEN soc
    ELSE IF soc.proposals[proposal_idx + 1].status # "open" THEN soc
    ELSE IF Len(soc.proposals[proposal_idx + 1].votes) >= MaxVotesPer THEN soc
    ELSE IF \E i \in 1..Len(soc.proposals[proposal_idx + 1].votes) :
                soc.proposals[proposal_idx + 1].votes[i].voter_id = voter_id
    THEN soc
    ELSE [soc EXCEPT !.proposals[proposal_idx + 1] =
            [@ EXCEPT !.votes = Append(@, [voter_id |-> voter_id,
                                           in_favor |-> in_favor, vote_tick |-> tick]),
                      !.votes_for = IF in_favor THEN @ + 1 ELSE @,
                      !.votes_against = IF in_favor THEN @ ELSE @ + 1]]

\* a resolve pass that closes every open proposal, due or not
society_resolve_votes_early(soc, current_tick) ==
    [soc EXCEPT !.proposals = [i \in 1..Len(soc.proposals) |->
        IF soc.proposals[i].status # "open" THEN soc.proposals[i]
        ELSE [soc.proposals[i] EXCEPT
                !.status = "resolved",
                !.result = soc.proposals[i].votes_for
                              > soc.proposals[i].votes_against]]]

society_resolve_votes(soc, current_tick) ==
    [soc EXCEPT !.proposals = [i \in 1..Len(soc.proposals) |->
        IF soc.proposals[i].status # "open"
           \/ current_tick < soc.proposals[i].deadline_tick
        THEN soc.proposals[i]
        ELSE [soc.proposals[i] EXCEPT
                !.status = "resolved",
                !.result = soc.proposals[i].votes_for
                              > soc.proposals[i].votes_against]]]

\* the indices of the active claims on a system
claims_on(soc, system_id) ==
    {i \in 1..Len(soc.claims) :
        soc.claims[i].active /\ soc.claims[i].system_id = system_id}

\* a claim that does not look for an earlier claim on the system
society_claim_system_unchecked(soc, claimer_id, system_id, tick) ==
    IF Len(soc.claims) >= MaxClaims THEN soc
    ELSE [soc EXCEPT !.claims = Append(@,
            [claimer_id |-> claimer_id, system_id |-> system_id,
             claimed_tick |-> tick, active |-> TRUE])]

\* the first active claim of the claimer on the system is made inactive
society_revoke_claim(soc, claimer_id, system_id) ==
    LET own == {i \in claims_on(soc, system_id) :
                    soc.claims[i].claimer_id = claimer_id}
    IN IF own = {} THEN soc
       ELSE [soc EXCEPT !.claims[CHOOSE i \in own : \A j \in own : i <= j].active
                            = FALSE]

society_claim_system(soc, claimer_id, system_id, tick) ==
    IF claims_on(soc, system_id) # {} THEN soc
    ELSE IF Len(soc.claims) >= MaxClaims THEN soc
    ELSE [soc EXCEPT !.claims = Append(@,
            [claimer_id |-> claimer_id, system_id |-> system_id,
             claimed_tick |-> tick, active |-> TRUE])]

\* the claimer of the first active claim on the system, or the null uid
society_get_claim(soc, system_id) ==
    IF claims_on(soc, system_id) = {} THEN uid_null
    ELSE soc.claims[CHOOSE i \in claims_on(soc, system_id) :
                        \A j \in claims_on(soc, system_id) : i <= j].claimer_id

society_is_claimed_by_other(soc, system_id, probe_id) ==
    \E i \in claims_on(soc, system_id) : soc.claims[i].claimer_id # probe_id

----------------------------------------------------------------------------
(* Probe actions (probe.c probe_execute_action) *)

FUEL_ORBIT_INSERT_BASE == 50000   \* 5.0 kg; model planets have mass_earth 1

FUEL_LAND_BASE == 100000         \* 10.0 kg

FUEL_LAUNCH_BASE == 150000       \* 15.0 kg

FUEL_NAVIGATE_BASE == 20000      \* 2.0 kg

ENERGY_MINE_PER_TICK == 500      \* 5.0e8 J

MINING_BASE_RATE == 10000        \* 10 kg per tick at rate 1 and abundance 1, in grams

REPAIR_IRON_COST == 10000         \* 10.0 kg

REPAIR_ENERGY_COST == 1000        \* 1.0e9 J

REPAIR_HULL_GAIN == 50            \* 0.05 hull

\* action_t as parsed by action_parse; unset fields keep their zero value
act_wait ==
    [type |-> "wait", target_system |-> uid_null, target_probe |-> uid_null,
     target_body |-> uid_null, target_resource |-> "iron", amount |-> 0,
     research_domain |-> "propulsion", survey_level |-> 0, message |-> "",
     structure_type |-> 0, proposal_idx |-> 0, vote_favor |-> FALSE]

\* the planet of sys with this id, uid_null if none (find_planet)
find_planet(sys, body_id) ==
    IF body_id \in DOMAIN sys.planets THEN body_id ELSE uid_null

spend_idle(p) == [p EXCEPT !.energy_joules = Max(@ - ENERGY_IDLE_PER_TICK, 0)]

\* each exec_* maps [probe, sys, survey] to [probe, sys, survey]
exec_enter_orbit(x, a) ==
    LET p == x.probe
        body == find_planet(x.sys, a.target_body)
    IN IF p.location_type \notin {"in_system", "orbiting"} THEN x
       ELSE IF body = uid_null THEN x
       ELSE IF p.fuel_kg < FUEL_ORBIT_INSERT_BASE THEN x
       ELSE [x EXCEPT !.probe =
                [spend_idle(p) EXCEPT !.fuel_kg = @ - FUEL_ORBIT_INSERT_BASE,
                                      !.body_id = body,
                                      !.location_type = "orbiting"]]

exec_land(x, a) ==
    LET p == x.probe
        first == find_planet(x.sys, a.target_body)
        body == IF first # uid_null THEN first ELSE find_planet(x.sys, p.body_id)
    IN IF p.location_type # "orbiting" THEN x
       ELSE IF body = uid_null THEN x
       ELSE IF p.fuel_kg < FUEL_LAND_BASE THEN x
       ELSE [x EXCEPT !.probe =
                [spend_idle(p) EXCEPT !.fuel_kg = @ - FUEL_LAND_BASE,
                                      !.body_id = body,
                                      !.location_type = "landed"]]

exec_launch(x, a) ==
    LET p == x.probe
    IN IF p.location_type # "landed" THEN x
       ELSE IF p.fuel_kg < FUEL_LAUNCH_BASE THEN x
       ELSE [x EXCEPT !.probe =
                [spend_idle(p) EXCEPT !.fuel_kg = @ - FUEL_LAUNCH_BASE,
                                      !.location_type = "orbiting"]]

\* navigation to a body without the test that the probe is in a system
exec_navigate_to_body_anywhere(x, a) ==
    LET p == x.probe
        body == find_planet(x.sys, a.target_body)
    IN IF body = uid_null THEN x
       ELSE IF p.fuel_kg < FUEL_NAVIGATE_BASE THEN x
       ELSE [x EXCEPT !.probe =
                [spend_idle(p) EXCEPT !.fuel_kg = @ - FUEL_NAVIGATE_BASE,
                                      !.body_id = body,
                                      !.location_type = "in_system"]]

exec_navigate_to_body(x, a) ==
    LET p == x.probe
        body == find_planet(x.sys, a.target_body)
    IN IF p.location_type = "interstellar" \/ p.status = "traveling" THEN x
       ELSE IF body = uid_null THEN x
       ELSE IF p.fuel_kg < FUEL_NAVIGATE_BASE THEN x
       ELSE [x EXCEPT !.probe =
                [spend_idle(p) EXCEPT !.fuel_kg = @ - FUEL_NAVIGATE_BASE,
                                      !.body_id = body,
                                      !.location_type = "in_system"]]

\* abundance of a resource on a model planet, in thousandths: iron at a
\* half, nothing else in significant deposits
planet_abundance(body, res) == IF res = "iron" THEN 500 ELSE 0

\* model planets have mass_earth 1, so the gravity factor is 1; the planet's
\* depletion (1e-9 of the yield) is below the resolution of the abundance
exec_mine(x, a) ==
    LET p == x.probe
        body == find_planet(x.sys, p.body_id)
        abundance == planet_abundance(body, a.target_resource)
        yield == (MINING_BASE_RATE * p.mining_rate * abundance) \div 1000
    IN IF p.location_type # "landed" THEN x
       ELSE IF body = uid_null THEN x
       ELSE IF a.target_resource \notin Resources THEN x
       ELSE IF abundance <= 1 THEN x
       ELSE IF p.energy_joules < ENERGY_MINE_PER_TICK THEN x
       ELSE [x EXCEPT !.probe =
                [p EXCEPT !.energy_joules = @ - ENERGY_MINE_PER_TICK,
                          !.resources[a.target_resource] = @ + yield,
                          !.status = "mining"]]

exec_survey(x, a) ==
    LET p == x.probe
        first == find_planet(x.sys, a.target_body)
        body == IF first # uid_null THEN first ELSE find_planet(x.sys, p.body_id)
        level == a.survey_level
        is_new == \/ x.survey.survey_body_id # body
                  \/ x.survey.survey_level # level
                  \/ x.survey.survey_ticks_remaining <= 0
        started == IF is_new
                   THEN [survey_body_id |-> body, survey_level |-> level,
                         survey_ticks_remaining |-> SURVEY_TICKS[level + 1]]
                   ELSE x.survey
        remaining == started.survey_ticks_remaining - 1
        paid == [p EXCEPT !.energy_joules = Max(@ - ENERGY_SURVEY_PER_TICK, 0)]
    IN IF body = uid_null THEN x
       ELSE IF level < 0 \/ level > 4 THEN x
       ELSE IF level > 0 /\ ~x.sys.planets[body].surveyed[level - 1] THEN x
       ELSE IF x.sys.planets[body].surveyed[level] THEN x
       ELSE IF level = 4 /\ p.location_type # "landed" THEN x
       ELSE IF level < 4 /\ p.location_type \notin {"orbiting", "landed"} THEN x
       ELSE IF remaining <= 0
       THEN [probe |-> paid,
             sys |-> [x.sys EXCEPT
                        !.planets[body].surveyed[level] = TRUE,
                        !.planets[body].discovered_by =
                            IF @ = uid_null THEN p.id ELSE @],
             survey |-> [started EXCEPT !.survey_ticks_remaining = remaining,
                                        !.survey_level = -1]]
       ELSE [probe |-> paid, sys |-> x.sys,
             survey |-> [started EXCEPT !.survey_ticks_remaining = remaining]]

exec_wait(x, a) == [x EXCEPT !.probe = spend_idle(@)]

\* a repair that adds its gain to the hull without the cap at 1.0
exec_repair_uncapped(x, a) ==
    LET p == x.probe
    IN IF p.hull_integrity >= 1000 THEN x
       ELSE IF p.resources["iron"] < REPAIR_IRON_COST THEN x
       ELSE IF p.energy_joules < REPAIR_ENERGY_COST THEN x
       ELSE [x EXCEPT !.probe =
                [p EXCEPT !.resources["iron"] = @ - REPAIR_IRON_COST,
                          !.energy_joules = @ - REPAIR_ENERGY_COST,
                          !.hull_integrity = @ + REPAIR_HULL_GAIN]]

exec_repair(x, a) ==
    LET p == x.probe
    IN IF p.hull_integrity >= 1000 THEN x
       ELSE IF p.resources["iron"] < REPAIR_IRON_COST THEN x
       ELSE IF p.energy_joules < REPAIR_ENERGY_COST THEN x
       ELSE [x EXCEPT !.probe =
                [p EXCEPT !.resources["iron"] = @ - REPAIR_IRON_COST,
                          !.energy_joules = @ - REPAIR_ENERGY_COST,
                          !.hull_integrity = Min(@ + REPAIR_HULL_GAIN, 1000)]]

probe_execute_action(x, a) ==
    IF x.probe.status = "destroyed" THEN x
    ELSE CASE a.type = "enter_orbit" -> exec_enter_orbit(x, a)
           [] a.type = "land"        -> exec_land(x, a)
           [] a.type = "launch"      -> exec_launch(x, a)
           [] a.type = "navigate_to_body" -> exec_navigate_to_body(x, a)
           [] a.type = "mine"        -> exec_mine(x, a)
           [] a.type = "survey"      -> exec_survey(x, a)
           [] a.type = "wait"        -> exec_wait(x, a)
           [] a.type = "repair"      -> exec_repair(x, a)
           [] OTHER -> x

----------------------------------------------------------------------------
(* The tick handler of run_pipe_mode (sim/src/main.c), as a function of    *)
(* the whole server state w and the per-probe actions of the command.      *)

World ==
    [uni |-> uni, rng |-> rng, repl |-> g_pipe_repl, lineage |-> g_pipe_lineage,
     comm |-> g_pipe_comm, society |-> g_pipe_society, events |-> g_pipe_events,
     inject |-> g_pipe_inject, scenario |-> g_pipe_scenario,
     sys_cache |-> g_pipe_sys_cache, survey |-> survey]

\* sys_cache_get finds the system: every system of the origin sector is
\* cached at start-up and the rest of the sector regenerates on a miss
sys_cache_get(sys_id) == sys_id \in Systems

\* the action of table entry i (the body of the execute loop)
ExecAction(w, i, a) ==
    LET pr == w.uni.probes[i]
        tidx == find_probe_idx(w.uni, a.target_probe)
    IN IF pr.status = "destroyed" THEN w
       ELSE CASE a.type = "travel_to_system" ->
                IF pr.status = "traveling" \/ ~sys_cache_get(a.target_system) THEN w
                ELSE [w EXCEPT !.uni.probes[i] = travel_initiate(pr,
                        [target_pos |-> SysPos(a.target_system),
                         target_system_id |-> a.target_system])]
         [] a.type = "replicate" ->
                IF pr.status # "active" \/ ~repl_check_resources(pr) THEN w
                ELSE [w EXCEPT !.uni.probes[i] = repl_begin(pr, w.repl[i]).probe,
                               !.repl[i] = repl_begin(pr, w.repl[i]).state]
         [] a.type = "send_message" ->
                IF tidx = 0 THEN w
                ELSE LET r == comm_send_targeted(w.comm, pr, a.target_probe,
                                  w.uni.probes[tidx].heading, a.message, w.uni.tick)
                     IN [w EXCEPT !.comm = r.cs, !.uni.probes[i] = r.probe]
         [] a.type = "trade" ->
                IF tidx = 0 THEN w
                ELSE LET r == society_trade_send(w.society, w.uni.probes, i, tidx,
                                  a.target_resource, a.amount,
                                  pr.system_id = w.uni.probes[tidx].system_id,
                                  w.uni.tick)
                     IN [w EXCEPT !.society = r.soc, !.uni.probes = r.probes]
         [] a.type = "build_structure" ->
                IF a.structure_type >= 0 /\ a.structure_type < STRUCT_TYPE_COUNT
                THEN LET b == society_build_start(w.society, pr, a.structure_type,
                                                  pr.system_id, w.uni.tick, w.rng)
                     IN [w EXCEPT !.society = b.soc, !.rng = b.rng]
                ELSE w
         [] a.type = "claim_system" ->
                [w EXCEPT !.society = society_claim_system(@, pr.id, pr.system_id,
                                                           w.uni.tick)]
         [] a.type = "propose" ->
                [w EXCEPT !.society = society_propose(@, pr.id, a.message, w.uni.tick,
                                          w.uni.tick + VOTE_DEADLINE_TICKS)]
         [] a.type = "vote" ->
                [w EXCEPT !.society = society_vote(@, a.proposal_idx, pr.id,
                                                   a.vote_favor, w.uni.tick)]
         [] a.type = "revoke_claim" ->
                [w EXCEPT !.society = society_revoke_claim(@, pr.id, pr.system_id)]
         [] a.type = "share_tech" ->
                IF tidx = 0 THEN w
                ELSE LET shared == [w.uni.probes EXCEPT ![tidx] =
                             society_share_tech(pr, @, a.research_domain)]
                     IN [w EXCEPT !.uni.probes =
                            society_update_trust(shared, i, tidx, TRUST_TECH_SHARE)]
         [] OTHER ->
                IF ~sys_cache_get(pr.system_id) THEN w
                ELSE LET x == probe_execute_action(
                                [probe |-> pr, sys |-> w.sys_cache[pr.system_id],
                                 survey |-> w.survey], a)
                     IN [w EXCEPT !.uni.probes[i] = x.probe,
                                  !.sys_cache[pr.system_id] = x.sys,
                                  !.survey = x.survey]

RECURSIVE ExecActions(_, _, _)
ExecActions(w, acts, i) ==
    IF i > Len(w.uni.probes) THEN w
    ELSE ExecActions(ExecAction(w, i, acts[i]), acts, i + 1)

\* the table after repl_finalize result f for parent entry i: the child is
\* placed with its parent, recorded in the lineage and counted
ReplChild(w, i, f) ==
    [w EXCEPT !.uni.probes = Append([@ EXCEPT ![i] = f.parent], f.child),
              !.rng = f.rng,
              !.lineage = lineage_record(@, f.parent.id, f.child.id,
                                         w.uni.tick, f.child.generation),
              !.repl[i] = repl_zero]

\* what the advance loop does with the result t of repl_tick for entry i
ReplResult(w, i, t) ==
    IF t.rc # 1
    THEN [w EXCEPT !.uni.probes[i] = t.probe, !.repl[i] = t.state]
    ELSE IF Len(w.uni.probes) < MaxProbes
    THEN ReplChild(w, i, repl_finalize(t.probe, t.state, w.rng))
    ELSE [w EXCEPT !.uni.probes[i] = t.probe, !.repl[i] = repl_zero]

\* replication step of table entry i in the advance loop
AdvanceRepl(w, i) ==
    IF ~(w.uni.probes[i].status = "replicating" /\ w.repl[i].active) THEN w
    ELSE ReplResult(w, i, repl_tick(w.uni.probes[i], w.repl[i]))

\* travel step of table entry i: w with the result tr of travel_tick
WithTravel(w, i, tr) == [w EXCEPT !.uni.probes[i] = tr.probe, !.rng = tr.rng]

EnergyStep(w, i) == [w EXCEPT !.uni.probes[i] = probe_tick_energy(@)]

\* the advance loop from table entry i on; the table may grow while it runs
RECURSIVE AdvanceProbes(_, _)
AdvanceProbes(w, i) ==
    IF i > Len(w.uni.probes) THEN w
    ELSE AdvanceProbes(
            EnergyStep(AdvanceRepl(
                WithTravel(w, i, travel_tick(w.uni.probes[i], w.rng)), i), i),
            i + 1)

\* the hazard effect of a subtype on probe p
hazard_effect(p, subtype, severity) ==
    CASE subtype = HAZ_SOLAR_FLARE -> hazard_solar_flare(p, severity)
      [] subtype = HAZ_ASTEROID_COLLISION -> hazard_asteroid(p, severity)
      [] OTHER -> hazard_radiation(p, severity)

events_queue_hazard(es, probe_id, subtype, severity, tick, strike_tick) ==
    [es EXCEPT !.pending = Append(@,
        [probe_id |-> probe_id, subtype |-> subtype, severity |-> severity,
         warned_tick |-> tick, strike_tick |-> strike_tick])]

\* the pending hazards due at tick strike their probes and leave the queue
RECURSIVE strike_from(_, _, _, _)
strike_from(pending, probes, k, tick) ==
    IF k > Len(pending) THEN probes
    ELSE LET h == pending[k]
             i == find_probe_idx([probes |-> probes], h.probe_id)
         IN IF h.strike_tick > tick \/ i = 0 \/ probes[i].status = "destroyed"
            THEN strike_from(pending, probes, k + 1, tick)
            ELSE strike_from(pending,
                    [probes EXCEPT ![i] = hazard_effect(@, h.subtype, h.severity)],
                    k + 1, tick)

events_strike_pending(w) ==
    [w EXCEPT !.uni.probes = strike_from(w.events.pending, @, 1, w.uni.tick),
              !.events.pending =
                  SelectSeq(@, LAMBDA h : h.strike_tick > w.uni.tick)]

\* warnings for the hazards logged from entry e on, for probe_id
RECURSIVE QueueWarnings(_, _, _, _, _)
QueueWarnings(es, r, e, probe_id, tick) ==
    IF e > Len(es.events) THEN [es |-> es, rng |-> r]
    ELSE IF es.events[e].type = "hazard"
    THEN LET delay == 3 + (rng_value(r) % 3)
         IN QueueWarnings(
                events_queue_hazard(es, probe_id, es.events[e].subtype,
                                    es.events[e].severity, tick, tick + delay),
                rng_next(r), e + 1, probe_id, tick)
    ELSE QueueWarnings(es, r, e + 1, probe_id, tick)

\* the event loop from table entry i on
RECURSIVE RollEvents(_, _)
RollEvents(w, i) ==
    IF i > Len(w.uni.probes) THEN w
    ELSE LET pr == w.uni.probes[i]
             g == events_tick_probe(w.events, pr, TRUE, w.uni.tick, w.rng)
             q == QueueWarnings(g.es, g.rng, Len(w.events.events) + 1,
                                pr.id, w.uni.tick)
         IN IF pr.status = "destroyed" \/ ~sys_cache_get(pr.system_id)
            THEN RollEvents(w, i + 1)
            ELSE RollEvents([w EXCEPT !.uni.probes[i] = g.probe,
                                      !.events = q.es, !.rng = q.rng], i + 1)

\* inject_flush: queued event k applied to the probes from entry pi on
RECURSIVE inject_flush(_, _, _)
inject_flush(w, k, pi) ==
    IF k > Len(w.inject) THEN [w EXCEPT !.inject = << >>]
    ELSE IF pi > Len(w.uni.probes) THEN inject_flush(w, k + 1, 1)
    ELSE LET ev == w.inject[k]
             g == events_generate(w.events, w.uni.probes[pi], ev.type, ev.subtype,
                                  TRUE, w.uni.tick, w.rng)
         IN IF ev.target_probe_id # uid_null
               /\ w.uni.probes[pi].id # ev.target_probe_id
            THEN inject_flush(w, k, pi + 1)
            ELSE inject_flush([w EXCEPT !.uni.probes[pi] = g.probe,
                                        !.events = g.es, !.rng = g.rng],
                              k, pi + 1)

\* events_get_for_probe: the first max_out log entries of the probe
RECURSIVE TakeFirst(_, _)
TakeFirst(seq, n) ==
    IF n = 0 \/ seq = << >> THEN << >>
    ELSE << Head(seq) >> \o TakeFirst(Tail(seq), n - 1)

events_get_for_probe(es, probe_id, max_out) ==
    TakeFirst(SelectSeq(es.events, LAMBDA e : e.probe_id = probe_id), max_out)

\* the observation emitted for table entry i
Observation(w, i) ==
    LET pr == w.uni.probes[i]
    IN [probe_id |-> pr.id, status |-> pr.status, hull |-> pr.hull_integrity,
        energy |-> pr.energy_joules, fuel |-> pr.fuel_kg,
        location |-> pr.location_type, generation |-> pr.generation,
        tech |-> pr.tech_levels, resources |-> pr.resources,
        system_id |-> pr.system_id, body_id |-> pr.body_id,
        heading |-> pr.heading, destination |-> pr.destination,
        travel_remaining_ly |-> pr.travel_remaining_ly,
        recent_events |-> events_get_for_probe(w.events, pr.id, 5),
        replication |-> IF w.repl[i].active THEN w.repl[i] ELSE repl_zero,
        surveyed |-> IF sys_cache_get(pr.system_id)
                     THEN w.sys_cache[pr.system_id]
                     ELSE [planets |-> [b \in {} |-> FALSE]],
        inbox |-> TakeFirst(comm_get_inbox(w.comm, pr.id), 16),
        threats |-> SelectSeq(w.events.pending, LAMBDA h : h.probe_id = pr.id)]

Observations(w) ==
    [tick |-> w.uni.tick,
     observations |-> [i \in 1..Len(w.uni.probes) |-> Observation(w, i)]]

\* uni.tick++ and the one draw of tick entropy
AdvanceTick(w) == [w EXCEPT !.uni.tick = @ + 1, !.rng = rng_next(@)]

DeliverMessages(w) == [w EXCEPT !.comm = comm_tick_deliver(@, w.uni.tick)]

\* w with the result tr of society_trade_tick
WithTrades(w, tr) == [w EXCEPT !.society = tr.soc, !.uni.probes = tr.probes]

DeliverTrades(w) ==
    WithTrades(w, society_trade_tick(w.society, w.uni.probes, w.uni.tick))

\* relay satellites from table entry si on that completed in this tick are
\* registered as communication relays of their first builder
RECURSIVE PromoteRelays(_, _)
PromoteRelays(w, si) ==
    IF si > Len(w.society.structures) THEN w
    ELSE LET st == w.society.structures[si]
             bidx == find_probe_idx(w.uni, st.builder_ids[1])
         IN IF st.type = STRUCT_RELAY_SATELLITE /\ st.complete
               /\ st.completed_tick = w.uni.tick /\ bidx > 0
            THEN PromoteRelays(
                    [w EXCEPT !.comm = comm_build_relay(@, w.uni.probes[bidx],
                                           st.system_id, w.uni.tick)], si + 1)
            ELSE PromoteRelays(w, si + 1)

BuildTick(w) ==
    PromoteRelays([w EXCEPT !.society = society_build_tick(@, w.uni.tick)], 1)

ResolveVotes(w) == [w EXCEPT !.society = society_resolve_votes(@, w.uni.tick)]

\* the trespass check of table entry i: the owner of a claimed system and a
\* probe of another that is in it lose trust in each other
TrespassOf(w, i, oidx) ==
    IF oidx = 0 THEN w
    ELSE [w EXCEPT !.uni.probes =
             society_update_trust(@, oidx, i, TRUST_CLAIM_VIOLATION)]

RECURSIVE Trespass(_, _)
Trespass(w, i) ==
    IF i > Len(w.uni.probes) THEN w
    ELSE IF \/ w.uni.probes[i].status = "destroyed"
            \/ w.uni.probes[i].location_type = "interstellar"
            \/ ~society_is_claimed_by_other(w.society, w.uni.probes[i].system_id,
                                            w.uni.probes[i].id)
    THEN Trespass(w, i + 1)
    ELSE Trespass(TrespassOf(w, i,
            find_probe_idx(w.uni, society_get_claim(w.society,
                                      w.uni.probes[i].system_id))), i + 1)

\* inject_event: the queue with the event appended, unchanged when full
inject_event(q, type, subtype, target_probe_id) ==
    IF Len(q) >= MaxInject THEN q
    ELSE Append(q, [type |-> type, subtype |-> subtype,
                    target_probe_id |-> target_probe_id])

\* the scheduled entries from si on that are due at the tick are handed to
\* inject_event and marked fired; injected is the ghost count of the times
\* inject_event has taken the entry into the queue
RECURSIVE FireScenario(_, _)
FireScenario(w, si) ==
    IF si > Len(w.scenario) THEN w
    ELSE IF w.scenario[si].fired \/ w.scenario[si].at_tick # w.uni.tick
    THEN FireScenario(w, si + 1)
    ELSE FireScenario(
            [w EXCEPT !.inject = inject_event(@, w.scenario[si].type,
                                     w.scenario[si].subtype, w.scenario[si].target),
                      !.scenario[si].fired = TRUE,
                      !.scenario[si].injected =
                          IF Len(w.inject) >= MaxInject THEN @ ELSE @ + 1],
            si + 1)

FlushInjected(w) == IF Len(w.inject) > 0 THEN inject_flush(w, 1, 1) ELSE w

\* the state of the server after the tick command with these actions
DoTick(w, acts) ==
    FlushInjected(FireScenario(RollEvents(events_strike_pending(Trespass(
        ResolveVotes(BuildTick(DeliverTrades(DeliverMessages(
            AdvanceProbes(AdvanceTick(ExecActions(w, acts, 1)), 1))))), 1)), 1), 1))

----------------------------------------------------------------------------
(* The pipe-mode server as a state machine: one action per command.        *)
(* Construction, build ticks, vote resolution, research, trespass and      *)
(* scheduled scenario events act on tables no command of this model fills, *)
(* so they leave the state alone and are not written out here.             *)

Seeds == {42, 43}

Tags == {"a", "b", "c"}

snap_zero == [valid |-> FALSE, tag |-> "", tick |-> 0, seed |-> 0, probes |-> << >>]

\* the state run_pipe_mode sets up before reading its first command
BootUni(seed) ==
    [tick |-> 0, seed |-> seed,
     probes |-> << [probe_init_bob EXCEPT !.system_id = SYS_A,
                                          !.heading = SysPos(SYS_A),
                                          !.location_type = "in_system"] >>]

survey_zero ==
    [survey_body_id |-> uid_null, survey_level |-> -1, survey_ticks_remaining |-> 0]

resp_ready == [kind |-> "ready", tag |-> "", tick |-> 0, observations |-> << >>]

\* ghost record of a run: what was true when each tag was last snapshotted,
\* and the commands issued and observations returned since the tracked one
hist_start(budget) ==
    [steps |-> 0, budget |-> budget,
     at_snapshot |-> [t \in Tags |-> [taken |-> FALSE, uni |-> BootUni(0),
                                     rng |-> rng_seed(0)]],
     mode |-> "off", tag |-> "", trace |-> << >>, k |-> 0,
     survey_ticks |-> [i \in 1..MaxProbes |-> 0], acts |-> << >>]

\* every variable but hist, for a server whose universe is u, whose
\* generator is r and whose lineage tree is lin; the other tables are empty
ServerAt(u, r, lin) ==
    /\ uni = u
    /\ rng = r
    /\ g_pipe_repl = [i \in 1..MaxProbes |-> repl_zero]
    /\ g_pipe_lineage = lin
    /\ g_pipe_comm = comm_init
    /\ g_pipe_society = society_init
    /\ g_pipe_events = events_init
    /\ g_pipe_inject = << >>
    /\ g_pipe_scenario = << >>
    /\ g_pipe_snap = [i \in 1..MAX_SNAP_SLOTS |-> snap_zero]
    /\ g_pipe_sys_cache = [s \in Systems |-> FreshSystem(s)]
    /\ survey = survey_zero
    /\ resp = resp_ready

\* the server right after construction
Boot(u) == ServerAt(u, rng_seed(u.seed), << >>)

Init ==
    /\ \E seed \in Seeds : Boot(BootUni(seed))
    /\ hist = hist_start(MaxSteps)

\* the server's variables take the values of world w2
ApplyWorld(w2) ==
    /\ uni' = w2.uni
    /\ rng' = w2.rng
    /\ g_pipe_repl' = w2.repl
    /\ g_pipe_lineage' = w2.lineage
    /\ g_pipe_comm' = w2.comm
    /\ g_pipe_society' = w2.society
    /\ g_pipe_events' = w2.events
    /\ g_pipe_inject' = w2.inject
    /\ g_pipe_scenario' = w2.scenario
    /\ g_pipe_sys_cache' = w2.sys_cache
    /\ survey' = w2.survey

\* the tick command with these per-probe actions
TickStep(acts) ==
    /\ \E w2 \in {DoTick(World, acts)} :
          /\ ApplyWorld(w2)
          /\ resp' = [kind |-> "tick", tag |-> "", tick |-> w2.uni.tick,
                      observations |-> Observations(w2).observations]
    /\ UNCHANGED g_pipe_snap

\* bookkeeping of the ghost record for a state-changing command
HistCommand(cmd, arg, r) ==
    LET entry == [cmd |-> cmd, arg |-> arg, resp |-> r]
        h == [hist EXCEPT !.steps = @ + 1]
    IN CASE hist.mode = "record" -> [h EXCEPT !.trace = Append(@, entry)]
         [] hist.mode = "replay" ->
                IF hist.k < Len(hist.trace)
                   /\ hist.trace[hist.k + 1].cmd = cmd
                   /\ hist.trace[hist.k + 1].arg = arg
                THEN [h EXCEPT !.k = @ + 1]
                ELSE [h EXCEPT !.mode = "off"]
         [] OTHER -> h

BobActions ==
    { act_wait,
      [act_wait EXCEPT !.type = "travel_to_system", !.target_system = SYS_B],
      [act_wait EXCEPT !.type = "send_message", !.target_probe = BOB_ID,
                       !.message = "hello"],
      [act_wait EXCEPT !.type = "enter_orbit", !.target_body = PlanetOf(SYS_A)],
      [act_wait EXCEPT !.type = "survey", !.target_body = PlanetOf(SYS_A)] }

Tick ==
    /\ uni.tick < MaxTick
    /\ hist.steps < hist.budget
    /\ \E acts \in [1..Len(uni.probes) -> BobActions] :
          /\ TickStep(acts)
          /\ hist' = HistCommand("tick", acts, resp')

InjectedEvents ==
    { [type |-> "hazard", subtype |-> HAZ_SOLAR_FLARE, target_probe_id |-> uid_null],
      [type |-> "crisis", subtype |-> 0, target_probe_id |-> uid_null] }

\* the inject command (inject_parse_json, inject_event)
Inject ==
    /\ hist.steps < hist.budget
    /\ \E ev \in InjectedEvents :
          /\ IF Len(g_pipe_inject) >= MaxInject
             THEN /\ UNCHANGED g_pipe_inject
                  /\ resp' = [resp_ready EXCEPT !.kind = "error"]
             ELSE /\ g_pipe_inject' = Append(g_pipe_inject, ev)
                  /\ resp' = [resp_ready EXCEPT !.kind = "queued"]
          /\ hist' = HistCommand("inject", ev, resp')
    /\ UNCHANGED << uni, rng, g_pipe_repl, g_pipe_lineage, g_pipe_comm,
                    g_pipe_society, g_pipe_events, g_pipe_scenario, g_pipe_snap,
                    g_pipe_sys_cache, survey >>

\* slot holding a valid snapshot with this tag, 0 if none
snap_find(tag) ==
    IF \E i \in 1..MAX_SNAP_SLOTS : g_pipe_snap[i].valid /\ g_pipe_snap[i].tag = tag
    THEN CHOOSE i \in 1..MAX_SNAP_SLOTS :
            /\ g_pipe_snap[i].valid /\ g_pipe_snap[i].tag = tag
            /\ \A j \in 1..(i - 1) : ~(g_pipe_snap[j].valid /\ g_pipe_snap[j].tag = tag)
    ELSE 0

\* first free slot, the first slot when all are taken
snap_alloc ==
    IF \E i \in 1..MAX_SNAP_SLOTS : ~g_pipe_snap[i].valid
    THEN CHOOSE i \in 1..MAX_SNAP_SLOTS :
            ~g_pipe_snap[i].valid /\ \A j \in 1..(i - 1) : g_pipe_snap[j].valid
    ELSE 1

snapshot_take(u, tag) ==
    [valid |-> TRUE, tag |-> tag, tick |-> u.tick, seed |-> u.seed,
     probes |-> u.probes]

\* a restore that brings the probe table back but leaves the tick counter
snapshot_restore_stale_tick(snap, u) ==
    IF ~snap.valid THEN u
    ELSE [tick |-> u.tick, seed |-> snap.seed, probes |-> snap.probes]

\* the universe after snapshot_restore(snap, u)
snapshot_restore(snap, u) ==
    IF ~snap.valid THEN u
    ELSE [tick |-> snap.tick, seed |-> snap.seed, probes |-> snap.probes]

\* the snapshot command
Snapshot ==
    /\ hist.steps < hist.budget
    /\ \E tag \in Tags :
          LET slot == IF snap_find(tag) > 0 THEN snap_find(tag) ELSE snap_alloc
          IN /\ g_pipe_snap' = [g_pipe_snap EXCEPT ![slot] = snapshot_take(uni, tag)]
             /\ resp' = [resp_ready EXCEPT !.kind = "snapshot", !.tag = tag,
                                           !.tick = uni.tick]
             /\ hist' = [hist EXCEPT !.steps = @ + 1,
                            !.at_snapshot[tag] =
                                [taken |-> TRUE, uni |-> uni, rng |-> rng],
                            !.mode = "record", !.tag = tag,
                            !.trace = << >>, !.k = 0]
    /\ UNCHANGED << uni, rng, g_pipe_repl, g_pipe_lineage, g_pipe_comm,
                    g_pipe_society, g_pipe_events, g_pipe_inject, g_pipe_scenario,
                    g_pipe_sys_cache, survey >>

\* the generator after rng_seed(seed) and n calls of rng_next
rng_fast_forward(seed, n) == rng_skip(rng_seed(seed), n)

\* the restore command
Restore ==
    /\ hist.steps < hist.budget
    /\ \E tag \in Tags :
          LET slot == snap_find(tag)
              u == snapshot_restore(g_pipe_snap[slot], uni)
          IN IF slot = 0
             THEN /\ UNCHANGED << uni, rng >>
                  /\ resp' = [resp_ready EXCEPT !.kind = "error", !.tag = tag]
                  /\ hist' = [hist EXCEPT !.steps = @ + 1]
             ELSE /\ uni' = u
                  /\ rng' = rng_fast_forward(u.seed, u.tick)
                  /\ resp' = [resp_ready EXCEPT !.kind = "restored", !.tag = tag,
                                                !.tick = u.tick]
                  /\ hist' = [hist EXCEPT !.steps = @ + 1,
                                 !.mode = IF hist.mode = "record" /\ hist.tag = tag
                                          THEN "replay" ELSE "off",
                                 !.k = 0]
    /\ UNCHANGED << g_pipe_repl, g_pipe_lineage, g_pipe_comm, g_pipe_society,
                    g_pipe_events, g_pipe_inject, g_pipe_scenario, g_pipe_snap,
                    g_pipe_sys_cache, survey >>

Next == Tick \/ Inject \/ Snapshot \/ Restore

Spec == Init /\ [][Next]_vars

----------------------------------------------------------------------------
(* The same server picked up later in a run, when earlier hazards have     *)
(* worn Bob's hull down to WornHull thousandths.                           *)

InitWorn ==
    /\ \E seed \in Seeds :
          Boot([BootUni(seed) EXCEPT !.probes[1].hull_integrity = WornHull])
    /\ hist = hist_start(MaxSteps)

SpecWorn == InitWorn /\ [][Next]_vars

\* C1: whenever a probe's hull integrity has reached 0 (by a solar flare, an
\* asteroid collision, a crisis or a micrometeorite), its status is DESTROYED.
C1_HullZeroIsDestroyed ==
    \A i \in 1..Len(uni.probes) :
        uni.probes[i].hull_integrity = 0 => uni.probes[i].status = "destroyed"

----------------------------------------------------------------------------
(* Snapshot and restore *)

\* C3: snapshot at tick T, run further commands, restore the snapshot and
\* re-issue the same command stream: every response of the replay (the
\* observations of each tick) equals the response of the first run.
C3_ReplayObservesTheSame ==
    (hist.mode = "replay" /\ hist.k > 0) => resp = hist.trace[hist.k].resp

\* C4: immediately after a restore, the master PRNG is in exactly the state
\* it had when the snapshot was taken.
C4_RestoreResynchronisesRng ==
    resp.kind = "restored" => rng = hist.at_snapshot[resp.tag].rng

\* C10: a restore, after any ticks and commands since the snapshot, leaves a
\* universe equal to the snapshotted one in tick, seed, probe count and every
\* probe record.
C10_RestoreReturnsSnapshot ==
    resp.kind = "restored" =>
        LET U == hist.at_snapshot[resp.tag].uni
        IN /\ uni.tick = U.tick
           /\ uni.seed = U.seed
           /\ Len(uni.probes) = Len(U.probes)
           /\ \A i \in 1..Len(U.probes) : uni.probes[i] = U.probes[i]

\* a restore of a snapshot that ticks have since moved away from
C10_Witness ==
    /\ resp.kind = "restored"
    /\ hist.mode = "replay"
    /\ \E k \in 1..Len(hist.trace) :
          /\ hist.trace[k].cmd = "tick"
          /\ hist.trace[k].resp.tick > uni.tick
          /\ hist.trace[k].resp.observations[1].energy # uni.probes[1].energy_joules

----------------------------------------------------------------------------
(* Messaging runs: Bob writes to himself; his messages travel from his     *)
(* communication position to his heading, two ticks of light delay apart.  *)

InitComm ==
    /\ \E seed \in Seeds : Boot(BootUni(seed))
    /\ hist = hist_start(MaxCommSteps)

CommActions ==
    { act_wait,
      [act_wait EXCEPT !.type = "send_message", !.target_probe = BOB_ID,
                       !.message = "hello"] }

TickComm ==
    /\ uni.tick < MaxTick
    /\ hist.steps < hist.budget
    /\ \E acts \in [1..Len(uni.probes) -> CommActions] :
          /\ TickStep(acts)
          /\ hist' = HistCommand("tick", acts, resp')

NextComm == TickComm \/ Snapshot \/ Restore

SpecComm == InitComm /\ [][NextComm]_vars

\* C5: immediately after the delivery sweep of a tick t, a message is
\* DELIVERED if and only if its arrival_tick is at most t.
C5_DeliveredIffArrived ==
    resp.kind = "tick" =>
        \A k \in 1..Len(g_pipe_comm.messages) :
            (g_pipe_comm.messages[k].status = "delivered")
                <=> (g_pipe_comm.messages[k].arrival_tick <= uni.tick)

----------------------------------------------------------------------------
(* Later in a run: Bob has replicated and the probe table holds a fleet.   *)
(* The fleet is built with the code's own repl_finalize, one completed     *)
(* replication of Bob per child, REPL_BASE_TICKS ticks apart.              *)

repl_done == [active |-> TRUE, ticks_elapsed |-> REPL_BASE_TICKS,
              ticks_total |-> REPL_BASE_TICKS, consciousness_forked |-> TRUE]

\* fl = [uni, rng, lineage] grown by one child of Bob (what ReplChild does)
FleetGrow(fl, f) ==
    [uni |-> [fl.uni EXCEPT !.tick = @ + REPL_BASE_TICKS,
                            !.probes = Append([@ EXCEPT ![1] = f.parent], f.child)],
     rng |-> f.rng,
     lineage |-> lineage_record(fl.lineage, f.parent.id, f.child.id,
                                fl.uni.tick + REPL_BASE_TICKS, f.child.generation)]

RECURSIVE Fleet(_, _)
Fleet(fl, n) ==
    IF Len(fl.uni.probes) >= n THEN fl
    ELSE Fleet(FleetGrow(fl, repl_finalize(fl.uni.probes[1], repl_done, fl.rng)), n)

\* a server whose table holds Bob and n - 1 children, all in Bob's system
FleetOf(seed, n) ==
    Fleet([uni |-> BootUni(seed), rng |-> rng_seed(seed), lineage |-> << >>], n)

\* Bob's stock of each resource (grams) where the society runs are picked up
BobStock == 5000

TradeAmounts == {2000, 0 - 2000, 9000}

InitSoc ==
    /\ \E seed \in Seeds : \E fl \in {FleetOf(seed, 2)} :
          ServerAt([fl.uni EXCEPT !.probes[1].resources =
                        [r \in Resources |-> BobStock]],
                   fl.rng, fl.lineage)
    /\ hist = hist_start(MaxSteps)

\* the actions probe i may take in the society runs, toward probe j
SocActions(i, j) ==
    { act_wait }
    \cup { [act_wait EXCEPT !.type = "trade", !.target_probe = uni.probes[j].id,
                            !.target_resource = "iron", !.amount = amt] :
           amt \in TradeAmounts }
    \cup { [act_wait EXCEPT !.type = "share_tech", !.target_probe = uni.probes[j].id,
                            !.research_domain = "mining"],
           [act_wait EXCEPT !.type = "repair"] }

TickSoc ==
    /\ hist.steps < hist.budget
    /\ \E a1 \in SocActions(1, 2) : \E a2 \in SocActions(2, 1) :
          /\ TickStep(<< a1, a2 >>)
          /\ hist' = HistCommand("tick", << a1, a2 >>, resp')

NextSoc == TickSoc

SpecSoc == InitSoc /\ [][NextSoc]_vars

\* C2: after any sequence of tick commands with arbitrary actions (trades of
\* any requested amount included), every resource pool of every probe is >= 0.
C2_ResourcesNonNegative ==
    \A i \in 1..Len(uni.probes) : \A r \in Resources :
        uni.probes[i].resources[r] >= 0

----------------------------------------------------------------------------
(* Reachability runs: comm_check_reachable on relay networks.  Bob has     *)
(* travelled to one of a few places on the axis; relays are built where    *)
(* their builders are, and reachability of the places is queried.          *)

\* places on the axis, in light-years
ReachPlaces == {0, 15, 20, 35, 50}

InitReach ==
    /\ \E seed \in Seeds : \E at \in ReachPlaces :
          Boot([BootUni(seed) EXCEPT !.probes[1].destination = at * LY,
                                     !.probes[1].heading = at * LY])
    /\ hist = hist_start(MaxSteps)

\* a relay satellite completes at the place of its builder
PlaceRelay ==
    /\ Len(g_pipe_comm.relays) < MaxRelays
    /\ \E at \in ReachPlaces :
          g_pipe_comm' = comm_build_relay(g_pipe_comm,
                            [uni.probes[1] EXCEPT !.destination = at * LY],
                            uni.probes[1].system_id, uni.tick)
    /\ resp' = [resp_ready EXCEPT !.kind = "relay"]
    /\ UNCHANGED << uni, rng, g_pipe_repl, g_pipe_lineage, g_pipe_society,
                    g_pipe_events, g_pipe_inject, g_pipe_scenario, g_pipe_snap,
                    g_pipe_sys_cache, survey, hist >>

\* Bob asks whether a place can be reached
CheckReachable ==
    /\ \E to \in ReachPlaces :
          resp' = [kind |-> "reachable", tag |-> "", tick |-> uni.tick,
                   observations |->
                       << [target_pos |-> to * LY,
                           eff_dist |-> comm_check_reachable(g_pipe_comm,
                                            uni.probes[1], to * LY)] >>]
    /\ UNCHANGED << uni, rng, g_pipe_repl, g_pipe_lineage, g_pipe_comm,
                    g_pipe_society, g_pipe_events, g_pipe_inject, g_pipe_scenario, g_pipe_snap,
                    g_pipe_sys_cache, survey, hist >>

NextReach == PlaceRelay \/ CheckReachable

SpecReach == InitReach /\ [][NextReach]_vars

\* the relays some chain of active relays leads to from the set reached
RECURSIVE ChainClosure(_, _)
ChainClosure(relays, reached) ==
    LET more == {j \in 1..Len(relays) :
                    /\ relays[j].active
                    /\ \E i \in reached :
                          vec3_dist(relays[i].position, relays[j].position)
                              <= relays[i].range_ly}
    IN IF more \subseteq reached THEN reached
       ELSE ChainClosure(relays, reached \cup more)

\* the target is in direct range, or a chain of active relays leads to it
ChainExists(relays, from, to, range) ==
    \/ vec3_dist(from, to) <= range
    \/ \E k \in ChainClosure(relays,
                   {i \in 1..Len(relays) :
                       /\ relays[i].active
                       /\ vec3_dist(from, relays[i].position) <= range}) :
          vec3_dist(relays[k].position, to) <= relays[k].range_ly

\* C6: the reachability check reports a target reachable if and only if it
\* is within the sender's direct range or a chain of active relays leads from
\* the sender to it, for every placement of relays, a relay at the sender's
\* own position included.
C6_ReachableIffChain ==
    resp.kind = "reachable" =>
        ((resp.observations[1].eff_dist >= 0)
            <=> ChainExists(g_pipe_comm.relays, probe_pos(uni.probes[1]),
                            resp.observations[1].target_pos,
                            comm_range(uni.probes[1])))

----------------------------------------------------------------------------
(* Replication runs: Bob holds the cost of one child and may begin to      *)
(* replicate; the other probes of the table wait.  The table is one short  *)
(* of full, or full.  A run lasts long enough for one replication.         *)

InitRepl ==
    /\ \E seed \in Seeds : \E n \in {MaxProbes - 1, MaxProbes} :
       \E fl \in {FleetOf(seed, n)} :
          ServerAt([fl.uni EXCEPT !.probes[1].resources = REPL_COSTS],
                   fl.rng, fl.lineage)
    /\ hist = hist_start(REPL_BASE_TICKS + MaxSteps)

\* Bob's orders: he may put replication off for the first few commands
ReplActions ==
    IF hist.steps < MaxSteps
    THEN { act_wait, [act_wait EXCEPT !.type = "replicate"] }
    ELSE { [act_wait EXCEPT !.type = "replicate"] }

TickRepl ==
    /\ hist.steps < hist.budget
    /\ \E a1 \in ReplActions :
       \E acts \in {[i \in 1..Len(uni.probes) |-> IF i = 1 THEN a1 ELSE act_wait]} :
          /\ TickStep(acts)
          /\ hist' = HistCommand("tick", acts, resp')

NextRepl == TickRepl

SpecRepl == InitRepl /\ [][NextRepl]_vars

\* the replication of table entry i reaches completion in the next tick
repl_completes(i) ==
    /\ uni.probes[i].status = "replicating"
    /\ g_pipe_repl[i].active
    /\ repl_progress_at_least(
           [g_pipe_repl[i] EXCEPT !.ticks_elapsed = @ + 1], 1000)

\* C7: whenever a probe's replication reaches completion during a tick, in
\* that same tick a child is added to the probe table, exactly one lineage
\* entry (parent, child, birth tick, generation = parent generation + 1) is
\* appended, and the parent's status returns to ACTIVE.
C7_CompletionAddsChild ==
    [][\A i \in 1..Len(uni.probes) :
          (repl_completes(i) /\ uni'.tick = uni.tick + 1) =>
             /\ Len(uni'.probes) = Len(uni.probes) + 1
             /\ g_pipe_lineage' = Append(g_pipe_lineage,
                    [parent_id |-> uni.probes[i].id,
                     child_id |-> uni'.probes[Len(uni'.probes)].id,
                     birth_tick |-> uni'.tick,
                     generation |-> uni.probes[i].generation + 1])
             /\ uni'.probes[i].status = "active"]_vars

----------------------------------------------------------------------------
(* Survey runs: Bob and a child orbit the planet of their system and are   *)
(* ordered, tick by tick, to survey it at level 0 or to wait.              *)

SurveyPlanet == PlanetOf(SYS_A)

\* probe p once it has entered orbit of the planet
InOrbit(p) ==
    exec_enter_orbit([probe |-> p, sys |-> FreshSystem(SYS_A), survey |-> survey_zero],
                     [act_wait EXCEPT !.type = "enter_orbit",
                                      !.target_body = SurveyPlanet]).probe

InitSurvey ==
    /\ \E seed \in Seeds : \E fl \in {FleetOf(seed, 2)} :
          ServerAt([fl.uni EXCEPT !.probes = [i \in 1..Len(@) |-> InOrbit(@[i])]],
                   fl.rng, fl.lineage)
    /\ hist = hist_start(SURVEY_TICKS[1])

SurveyActions ==
    { act_wait,
      [act_wait EXCEPT !.type = "survey", !.target_body = SurveyPlanet,
                       !.survey_level = 0] }

level0_done == g_pipe_sys_cache[SYS_A].planets[SurveyPlanet].surveyed[0]

\* ghost count of the survey ticks of each probe: n > 0 after n successive
\* survey orders for the level, -1 once the probe has interrupted its survey
own_survey_ticks(acts) ==
    [i \in 1..MaxProbes |->
        LET n == hist.survey_ticks[i]
        IN IF i > Len(uni.probes) \/ level0_done \/ n = -1 THEN n
           ELSE IF acts[i].type = "survey" THEN n + 1
           ELSE IF n > 0 THEN -1 ELSE n]

TickSurvey ==
    /\ hist.steps < hist.budget
    /\ \E acts \in [1..Len(uni.probes) -> SurveyActions] :
          /\ TickStep(acts)
          /\ hist' = [HistCommand("tick", acts, resp') EXCEPT
                         !.survey_ticks = own_survey_ticks(acts)]

NextSurvey == TickSurvey

SpecSurvey == InitSurvey /\ [][NextSurvey]_vars

\* C8: a probe that orders survey(body, level 0) on successive ticks marks
\* the level complete after exactly SURVEY_TICKS[0] = 10 of its own survey
\* ticks: the probe that completes the level has surveyed for exactly 10
\* ticks (not earlier), and a probe that has surveyed for 10 successive ticks
\* finds the level complete (not later), whatever the other probe orders.
C8_SurveyTakesOwnTicks ==
    [][LET planet == g_pipe_sys_cache'[SYS_A].planets[SurveyPlanet]
           by == find_probe_idx(uni', planet.discovered_by)
       IN /\ (~level0_done /\ planet.surveyed[0] /\ by # 0
                 /\ hist'.survey_ticks[by] # -1)
                => hist'.survey_ticks[by] = SURVEY_TICKS[1]
          /\ \A i \in 1..Len(uni.probes) :
                hist'.survey_ticks[i] >= SURVEY_TICKS[1] => planet.surveyed[0]]_vars

----------------------------------------------------------------------------
(* Trust runs: society_update_trust on pairs of probes of a table that     *)
(* holds one probe more than a relationship table has room for others.     *)

InitTrust ==
    /\ \E seed \in Seeds : \E fl \in {FleetOf(seed, MaxRelationships + 2)} :
          ServerAt(fl.uni, fl.rng, fl.lineage)
    /\ hist = hist_start(MaxSteps)

TrustDeltas == {TRUST_TECH_SHARE, TRUST_CLAIM_VIOLATION}

\* update_trust(A, B, delta) for table entries a # b; the response records
\* the call and the trust each had in the other before it
UpdateTrust ==
    /\ hist.steps < hist.budget
    /\ \E a \in 1..Len(uni.probes) : \E b \in 1..Len(uni.probes) \ {a} :
       \E delta \in TrustDeltas :
          /\ uni' = [uni EXCEPT !.probes = society_update_trust(@, a, b, delta)]
          /\ resp' = [kind |-> "trust", tag |-> "", tick |-> uni.tick,
                      observations |->
                        << [a |-> a, b |-> b, delta |-> delta,
                            a_to_b |-> society_get_trust(uni.probes[a], uni.probes[b].id),
                            b_to_a |-> society_get_trust(uni.probes[b], uni.probes[a].id)] >>]
    /\ hist' = [hist EXCEPT !.steps = @ + 1]
    /\ UNCHANGED << rng, g_pipe_repl, g_pipe_lineage, g_pipe_comm, g_pipe_society,
                    g_pipe_events, g_pipe_inject, g_pipe_scenario, g_pipe_snap, g_pipe_sys_cache,
                    survey >>

NextTrust == UpdateTrust

SpecTrust == InitTrust /\ [][NextTrust]_vars

\* C9: after update_trust(A, B, delta), trust[A->B] and trust[B->A] have both
\* changed by exactly delta, for every pair, delta and prior state of the
\* relationship tables.
C9_TrustChangesBothWays ==
    resp.kind = "trust" =>
        LET o == resp.observations[1]
        IN /\ society_get_trust(uni.probes[o.a], uni.probes[o.b].id)
                  = o.a_to_b + o.delta
           /\ society_get_trust(uni.probes[o.b], uni.probes[o.a].id)
                  = o.b_to_a + o.delta

----------------------------------------------------------------------------
(* Travel runs: Bob, low on fuel, is ordered from system to system and     *)
(* travel_tick moves him, one call at a time.                              *)

\* the most fuel (0.0001 kg) Bob holds where the travel runs are picked up
MaxFuel == 12

InitTravel ==
    /\ \E seed \in Seeds : \E fuel \in 0..MaxFuel :
          Boot([BootUni(seed) EXCEPT !.probes[1].fuel_kg = fuel])
    /\ hist = hist_start(MaxSteps)

\* travel_initiate toward a system
TravelOrder ==
    /\ \E s \in Systems :
          uni' = [uni EXCEPT !.probes[1] = travel_initiate(@,
                     [target_pos |-> SysPos(s), target_system_id |-> s])]
    /\ resp' = [resp_ready EXCEPT !.kind = "travel_order"]
    /\ UNCHANGED << rng, g_pipe_repl, g_pipe_lineage, g_pipe_comm, g_pipe_society,
                    g_pipe_events, g_pipe_inject, g_pipe_scenario, g_pipe_snap, g_pipe_sys_cache,
                    survey, hist >>

\* travel_tick on a traveling Bob; the response records the fuel he had
TravelTick ==
    /\ uni.probes[1].status = "traveling"
    /\ \E t \in {travel_tick(uni.probes[1], rng)} :
          /\ uni' = [uni EXCEPT !.probes[1] = t.probe]
          /\ rng' = t.rng
    /\ resp' = [kind |-> "travel_tick", tag |-> "", tick |-> uni.tick,
                observations |-> << [fuel_before |-> uni.probes[1].fuel_kg] >>]
    /\ UNCHANGED << g_pipe_repl, g_pipe_lineage, g_pipe_comm, g_pipe_society,
                    g_pipe_events, g_pipe_inject, g_pipe_scenario, g_pipe_snap, g_pipe_sys_cache,
                    survey, hist >>

NextTravel == TravelOrder \/ TravelTick

SpecTravel == InitTravel /\ [][NextTravel]_vars

\* C11: a travel tick that leaves the traveling probe with fuel exactly 0
\* leaves it DORMANT: it is not reported arrived (ACTIVE, IN_SYSTEM) and
\* does not stay under way.
C11_FuelZeroIsDormant ==
    (resp.kind = "travel_tick" /\ uni.probes[1].fuel_kg = 0)
        => uni.probes[1].status = "dormant"

----------------------------------------------------------------------------
(* Replication-begin runs: Bob holds the replication cost, but for one     *)
(* pool that is a gram short, exact or a gram over; he travels, drifts or  *)
(* stays, and repl_begin is called on him.                                 *)

\* fuel for a journey that ends adrift, and fuel for a round trip
BeginFuels == {5, MaxFuel}

InitBegin ==
    /\ \E seed \in Seeds : \E fuel \in BeginFuels :
       \E r \in Resources : \E off \in {-1, 0, 1} :
          Boot([BootUni(seed) EXCEPT
                  !.probes[1].fuel_kg = fuel,
                  !.probes[1].resources = [REPL_COSTS EXCEPT ![r] = @ + off]])
    /\ hist = hist_start(MaxSteps)

\* repl_begin on Bob; the response records the call's result and what the
\* probe and the replication state were before it
ReplBegin ==
    /\ \E b \in {repl_begin(uni.probes[1], g_pipe_repl[1])} :
          /\ uni' = [uni EXCEPT !.probes[1] = b.probe]
          /\ g_pipe_repl' = [g_pipe_repl EXCEPT ![1] = b.state]
          /\ resp' = [kind |-> "repl_begin", tag |-> "", tick |-> uni.tick,
                      observations |-> << [rc |-> b.rc, probe |-> uni.probes[1],
                                           state |-> g_pipe_repl[1]] >>]
    /\ UNCHANGED << rng, g_pipe_lineage, g_pipe_comm, g_pipe_society,
                    g_pipe_events, g_pipe_inject, g_pipe_scenario, g_pipe_snap, g_pipe_sys_cache,
                    survey, hist >>

NextBegin == TravelOrder \/ TravelTick \/ ReplBegin

SpecBegin == InitBegin /\ [][NextBegin]_vars

\* C12: replication begin succeeds if and only if the probe is ACTIVE and
\* every resource pool is at least its cost; every other call returns -1 and
\* changes neither the probe nor the replication state.
C12_BeginIffActiveAndFunded ==
    resp.kind = "repl_begin" =>
        LET o == resp.observations[1]
        IN /\ (o.rc = 0) <=> (o.probe.status = "active" /\ repl_check_resources(o.probe))
           /\ o.rc # 0 => (o.rc = -1 /\ uni.probes[1] = o.probe
                                     /\ g_pipe_repl[1] = o.state)

----------------------------------------------------------------------------
(* Claim runs: Bob and two children share a system that nobody has claimed *)
(* and are ordered, tick by tick, to claim it or to wait.                  *)

InitClaim ==
    /\ \E seed \in Seeds : \E fl \in {FleetOf(seed, 3)} :
          ServerAt(fl.uni, fl.rng, fl.lineage)
    /\ hist = hist_start(MaxSteps)

ClaimActions == { act_wait, [act_wait EXCEPT !.type = "claim_system"] }

\* the tick command; the ghost record keeps the orders of the command
TickClaim ==
    /\ hist.steps < hist.budget
    /\ \E acts \in [1..Len(uni.probes) -> ClaimActions] :
          /\ TickStep(acts)
          /\ hist' = [HistCommand("tick", acts, resp') EXCEPT !.acts = acts]

NextClaim == TickClaim

SpecClaim == InitClaim /\ [][NextClaim]_vars

\* UID order: by the high word, then by the low word
uid_less(a, b) == a[1] < b[1] \/ (a[1] = b[1] /\ a[2] < b[2])

\* the probes ordered in the last command to claim the system
claimers_of(system_id) ==
    {i \in 1..Len(hist.acts) :
        /\ hist.acts[i].type = "claim_system"
        /\ uni.probes[i].system_id = system_id
        /\ uni.probes[i].status # "destroyed"}

\* C13: within a tick the actions run in ascending UID order: when several
\* probes claim the same unclaimed system in one tick, the claim made in
\* that tick belongs to the claimer with the smallest UID.
C13_SmallestUidClaimsFirst ==
    \A k \in 1..Len(g_pipe_society.claims) :
        LET c == g_pipe_society.claims[k]
        IN (resp.kind = "tick" /\ c.claimed_tick + 1 = uni.tick)
              => \A i \in claimers_of(c.system_id) :
                    ~uid_less(uni.probes[i].id, c.claimer_id)

----------------------------------------------------------------------------
\* C14: in every tick response the observations list the probes in ascending
\* UID order, also after replications have added probes to the table.
C14_ObservationsInUidOrder ==
    resp.kind = "tick" =>
        \A i \in 1..Len(resp.observations) : \A j \in 1..Len(resp.observations) :
            i < j => uid_less(resp.observations[i].probe_id,
                              resp.observations[j].probe_id)

----------------------------------------------------------------------------
(* Pass-order runs: Bob replicates while his child, toward the end of the  *)
(* replication, may be sent travelling between the systems.                *)

InitPasses ==
    /\ \E seed \in Seeds : \E fl \in {FleetOf(seed, 2)} :
          ServerAt([fl.uni EXCEPT !.probes[1].resources = REPL_COSTS],
                   fl.rng, fl.lineage)
    /\ hist = hist_start(REPL_BASE_TICKS + 1)

\* the child's orders: it waits until the replication is about to complete
ChildActions ==
    IF hist.steps + MaxSteps < REPL_BASE_TICKS THEN { act_wait }
    ELSE { act_wait } \cup
         { [act_wait EXCEPT !.type = "travel_to_system", !.target_system = s] :
               s \in Systems }

TickPasses ==
    /\ hist.steps < hist.budget
    /\ \E a2 \in ChildActions :
       \E acts \in {[i \in 1..Len(uni.probes) |->
                        IF i = 1 THEN [act_wait EXCEPT !.type = "replicate"]
                        ELSE IF i = 2 THEN a2 ELSE act_wait]} :
          /\ TickStep(acts)
          /\ hist' = [HistCommand("tick", acts, resp') EXCEPT !.acts = acts]

NextPasses == TickPasses

SpecPasses == InitPasses /\ [][NextPasses]_vars

\* the canonical passes: travel for all probes, then replication for all,
\* then energy housekeeping for all
RECURSIVE TravelPass(_, _)
TravelPass(w, i) ==
    IF i > Len(w.uni.probes) THEN w
    ELSE TravelPass(WithTravel(w, i, travel_tick(w.uni.probes[i], w.rng)), i + 1)

RECURSIVE ReplPass(_, _)
ReplPass(w, i) ==
    IF i > Len(w.uni.probes) THEN w ELSE ReplPass(AdvanceRepl(w, i), i + 1)

RECURSIVE EnergyPass(_, _)
EnergyPass(w, i) ==
    IF i > Len(w.uni.probes) THEN w ELSE EnergyPass(EnergyStep(w, i), i + 1)

\* the tick with its advance step run as the three canonical passes
CanonicalTick(w, acts) ==
    FlushInjected(FireScenario(RollEvents(events_strike_pending(Trespass(
        ResolveVotes(BuildTick(DeliverTrades(DeliverMessages(EnergyPass(ReplPass(TravelPass(
            AdvanceTick(ExecActions(w, acts, 1)), 1), 1), 1))))), 1)), 1), 1))

\* C15: each tick has the effect of the canonical steps run as separate
\* passes in order (travel for all, replication for all, energy for all),
\* the draws from the master PRNG included.
C15_TickEqualsCanonicalPasses ==
    [][uni'.tick = uni.tick + 1 =>
          \E c \in {CanonicalTick(World, hist'.acts)} :
              /\ uni' = c.uni
              /\ rng' = c.rng
              /\ g_pipe_repl' = c.repl
              /\ g_pipe_lineage' = c.lineage
              /\ g_pipe_events' = c.events]_vars

----------------------------------------------------------------------------
(* Event runs: Bob is ordered to wait or to travel between the systems     *)
(* while the per-tick event rolls are made.                                *)

\* commands issued in a run of the event specification
MaxEventSteps == 6

InitEvents ==
    /\ \E seed \in Seeds : Boot(BootUni(seed))
    /\ hist = hist_start(MaxEventSteps)

EventRunActions ==
    { act_wait } \cup
    { [act_wait EXCEPT !.type = "travel_to_system", !.target_system = s] :
          s \in Systems }

TickEvents ==
    /\ hist.steps < hist.budget
    /\ \E acts \in [1..Len(uni.probes) -> EventRunActions] :
          /\ TickStep(acts)
          /\ hist' = HistCommand("tick", acts, resp')

NextEvents == TickEvents

SpecEvents == InitEvents /\ [][NextEvents]_vars

\* the probe with this UID is between systems after the step
interstellar_after(probe_id) ==
    \E i \in 1..Len(uni'.probes) :
        /\ uni'.probes[i].id = probe_id
        /\ uni'.probes[i].location_type = "interstellar"

\* C16: event rolls are made only for probes that are in a system: a probe
\* whose location is INTERSTELLAR never receives a rolled event or a queued
\* hazard in a tick.
C16_NoEventsBetweenSystems ==
    [][/\ \A e \in (Len(g_pipe_events.events) + 1)..Len(g_pipe_events'.events) :
             ~interstellar_after(g_pipe_events'.events[e].probe_id)
       /\ \A h \in 1..Len(g_pipe_events'.pending) :
             g_pipe_events'.pending[h].warned_tick = uni'.tick
                => ~interstellar_after(g_pipe_events'.pending[h].probe_id)]_vars

\* ---------------------------------------------------------------------
\* Scheduled injections (the scenario command and the firing pass of the tick)
\* ---------------------------------------------------------------------

\* the scenario command with an events array: the table is replaced by the
\* parsed entries, none fired; loaded_tick and injected are ghost fields
Scenario ==
    /\ hist.steps < hist.budget
    /\ \E at \in 1..MaxTick, ev \in InjectedEvents :
          /\ g_pipe_scenario' =
                << [at_tick |-> at, type |-> ev.type, subtype |-> ev.subtype,
                    target |-> ev.target_probe_id, fired |-> FALSE,
                    loaded_tick |-> uni.tick, injected |-> 0] >>
          /\ resp' = [resp_ready EXCEPT !.kind = "loaded"]
          /\ hist' = HistCommand("scenario", [at_tick |-> at, ev |-> ev], resp')
    /\ UNCHANGED << uni, rng, g_pipe_repl, g_pipe_lineage, g_pipe_comm,
                    g_pipe_society, g_pipe_events, g_pipe_inject, g_pipe_snap,
                    g_pipe_sys_cache, survey >>

NextScenario == Scenario \/ Inject \/ Tick

SpecScenario == Init /\ [][NextScenario]_vars

\* C17: an entry of the scenario table is injected exactly once, in the tick
\* in which the tick counter becomes equal to its at_tick: never more than
\* once, and once that tick has run an entry loaded before it has been injected
C17_ScenarioFiresOnce ==
    \A si \in 1..Len(g_pipe_scenario) :
        /\ g_pipe_scenario[si].injected <= 1
        /\ (g_pipe_scenario[si].loaded_tick < g_pipe_scenario[si].at_tick
            /\ uni.tick >= g_pipe_scenario[si].at_tick)
              => g_pipe_scenario[si].injected = 1

\* ---------------------------------------------------------------------
\* Relay satellites (build_structure orders, construction, promotion)
\* ---------------------------------------------------------------------

RELAY_BASE_TICKS == SPECS_base_ticks[STRUCT_RELAY_SATELLITE + 1]

InitBuild ==
    /\ \E seed \in Seeds : Boot(BootUni(seed))
    /\ hist = hist_start(2 * RELAY_BASE_TICKS + MaxSteps + 2)

\* Bob's orders: in his first commands he may start a relay satellite or an
\* observatory, afterwards he waits
BuildActions ==
    IF hist.steps < MaxSteps
    THEN { act_wait } \cup
         { [act_wait EXCEPT !.type = "build_structure", !.structure_type = t] :
               t \in {STRUCT_RELAY_SATELLITE, STRUCT_OBSERVATORY} }
    ELSE { act_wait }

TickBuild ==
    /\ hist.steps < hist.budget
    /\ \E a1 \in BuildActions :
       \E acts \in {[i \in 1..Len(uni.probes) |-> IF i = 1 THEN a1 ELSE act_wait]} :
          /\ TickStep(acts)
          /\ hist' = [hist EXCEPT !.steps = @ + 1]

\* the snapshot command with tag "a", issued among the first commands
SnapshotBuild ==
    /\ hist.steps < MaxSteps
    /\ g_pipe_snap' = [g_pipe_snap EXCEPT
            ![IF snap_find("a") > 0 THEN snap_find("a") ELSE snap_alloc] =
                snapshot_take(uni, "a")]
    /\ resp' = [resp_ready EXCEPT !.kind = "snapshot", !.tag = "a",
                                  !.tick = uni.tick]
    /\ hist' = [hist EXCEPT !.steps = @ + 1]
    /\ UNCHANGED << uni, rng, g_pipe_repl, g_pipe_lineage, g_pipe_comm,
                    g_pipe_society, g_pipe_events, g_pipe_inject, g_pipe_scenario,
                    g_pipe_sys_cache, survey >>

\* the restore command with tag "a", issued after the tick in which a
\* structure has completed
RestoreBuild ==
    /\ hist.steps < hist.budget
    /\ snap_find("a") > 0
    /\ \E si \in 1..Len(g_pipe_society.structures) :
          /\ g_pipe_society.structures[si].complete
          /\ g_pipe_society.structures[si].completed_tick = uni.tick
    /\ \E u \in {snapshot_restore(g_pipe_snap[snap_find("a")], uni)} :
          /\ uni' = u
          /\ rng' = rng_fast_forward(u.seed, u.tick)
          /\ resp' = [resp_ready EXCEPT !.kind = "restored", !.tag = "a",
                                        !.tick = u.tick]
    /\ hist' = [hist EXCEPT !.steps = @ + 1]
    /\ UNCHANGED << g_pipe_repl, g_pipe_lineage, g_pipe_comm, g_pipe_society,
                    g_pipe_events, g_pipe_inject, g_pipe_scenario, g_pipe_snap,
                    g_pipe_sys_cache, survey >>

NextBuild == TickBuild \/ SnapshotBuild \/ RestoreBuild

SpecBuild == InitBuild /\ [][NextBuild]_vars

\* the entries of the relay table registered for structure si
relays_of(si) ==
    { j \in 1..Len(g_pipe_comm.relays) :
        /\ g_pipe_comm.relays[j].active
        /\ g_pipe_comm.relays[j].owner_id =
              g_pipe_society.structures[si].builder_ids[1]
        /\ g_pipe_comm.relays[j].system_id = g_pipe_society.structures[si].system_id
        /\ g_pipe_comm.relays[j].built_tick =
              g_pipe_society.structures[si].completed_tick }

\* C18: every completed relay satellite has exactly one active relay in the
\* communication relay table, from the tick of its completion on; no later
\* tick registers a second one
C18_RelayPromotedOnce ==
    \A si \in 1..Len(g_pipe_society.structures) :
        (g_pipe_society.structures[si].type = STRUCT_RELAY_SATELLITE
         /\ g_pipe_society.structures[si].complete)
            => Cardinality(relays_of(si)) = 1

\* ---------------------------------------------------------------------
\* Interrupted replication (replicate and travel orders to one probe)
\* ---------------------------------------------------------------------

\* Bob holds the materials of two replications
InitResume ==
    /\ \E seed \in Seeds :
          Boot([BootUni(seed) EXCEPT !.probes[1].resources =
                    [r \in Resources |-> 2 * REPL_COSTS[r]]])
    /\ hist = hist_start(2 * MaxSteps)

ResumeActions ==
    { act_wait, [act_wait EXCEPT !.type = "replicate"] } \cup
    { [act_wait EXCEPT !.type = "travel_to_system", !.target_system = s] :
          s \in Systems }

TickResume ==
    /\ hist.steps < hist.budget
    /\ \E a1 \in ResumeActions :
       \E acts \in {[i \in 1..Len(uni.probes) |-> IF i = 1 THEN a1 ELSE act_wait]} :
          /\ TickStep(acts)
          /\ hist' = [hist EXCEPT !.steps = @ + 1, !.acts = acts]

NextResume == TickResume

SpecResume == InitResume /\ [][NextResume]_vars

\* C19: a replication that is under way keeps its progress whatever happens
\* to the status of the probe: over a tick the elapsed ticks never decrease,
\* and in a tick in which the probe is REPLICATING again after an interruption
\* they continue from the retained count
C19_InterruptedReplicationResumes ==
    [][(g_pipe_repl[1].active /\ g_pipe_repl'[1].active)
          => /\ g_pipe_repl'[1].ticks_elapsed >= g_pipe_repl[1].ticks_elapsed
             /\ (uni.probes[1].status # "replicating"
                 /\ uni'.probes[1].status = "replicating")
                   => g_pipe_repl'[1].ticks_elapsed
                         = g_pipe_repl[1].ticks_elapsed + 1]_vars

\* ---------------------------------------------------------------------
\* Orders of a probe that is short of energy
\* ---------------------------------------------------------------------

\* energy left to a probe that has run out of hydrogen and fuel
Energies ==
    { 0, ENERGY_SURVEY_PER_TICK - 1, ENERGY_SURVEY_PER_TICK,
      2 * ENERGY_SURVEY_PER_TICK + 1 }

\* Bob orbits the planet of his home system with empty tanks
InitEnergy ==
    /\ \E seed \in Seeds : \E e \in Energies :
          Boot([BootUni(seed) EXCEPT !.probes[1] =
                    [InOrbit(@) EXCEPT !.fuel_kg = 0, !.energy_joules = e,
                                       !.resources["hydrogen"] = 0]])
    /\ hist = hist_start(MaxSteps)

EnergyActions ==
    { act_wait,
      [act_wait EXCEPT !.type = "enter_orbit", !.target_body = SurveyPlanet],
      [act_wait EXCEPT !.type = "survey", !.target_body = SurveyPlanet,
                       !.survey_level = 0] }

\* the energy an order draws from the probe
energy_needed(a) ==
    IF a.type = "survey" THEN ENERGY_SURVEY_PER_TICK ELSE ENERGY_IDLE_PER_TICK

\* the execution of one order of Bob, by itself
Order ==
    /\ hist.steps < hist.budget
    /\ \E a \in EnergyActions :
          /\ ApplyWorld(ExecAction(World, 1, a))
          /\ hist' = [hist EXCEPT !.steps = @ + 1, !.acts = << a >>]
    /\ resp' = [resp_ready EXCEPT !.kind = "order"]
    /\ UNCHANGED g_pipe_snap

TickEnergy ==
    /\ hist.steps < hist.budget
    /\ \E a1 \in EnergyActions :
       \E acts \in {[i \in 1..Len(uni.probes) |-> IF i = 1 THEN a1 ELSE act_wait]} :
          /\ TickStep(acts)
          /\ hist' = [hist EXCEPT !.steps = @ + 1, !.acts = acts]

NextEnergy == Order \/ TickEnergy

SpecEnergy == InitEnergy /\ [][NextEnergy]_vars

\* C20: an order that needs more energy than the probe has fails before it
\* takes effect: its execution changes neither the probe (energy, fuel,
\* location, hull, resources) nor the planets nor the survey in progress
C20_ShortOfEnergyNoEffect ==
    [][(resp'.kind = "order"
        /\ energy_needed(hist'.acts[1]) > uni.probes[1].energy_joules)
          => /\ uni' = uni
             /\ g_pipe_sys_cache' = g_pipe_sys_cache
             /\ survey' = survey]_vars

\* ---------------------------------------------------------------------
\* Tech sharing between a probe that has finished a research and its child
\* ---------------------------------------------------------------------

ShareDomains == {"propulsion", "mining", "weapons"}

\* Bob and his child; one of them has completed a research since the child
\* was built
InitShare ==
    /\ \E seed \in Seeds : \E fl \in {FleetOf(seed, 2)} :
       \E i \in 1..2 : \E d \in ShareDomains :
          ServerAt([fl.uni EXCEPT !.probes[i] = research_complete(@, d)],
                   fl.rng, fl.lineage)
    /\ hist = hist_start(MaxSteps)

\* the orders of table entry i toward entry j
ShareActions(i, j) ==
    { act_wait } \cup
    { [act_wait EXCEPT !.type = "share_tech", !.target_probe = uni.probes[j].id,
                       !.research_domain = d] : d \in ShareDomains }

TickShare ==
    /\ hist.steps < hist.budget
    /\ \E a1 \in ShareActions(1, 2), a2 \in ShareActions(2, 1) :
       \E acts \in {<< a1, a2 >>} :
          /\ TickStep(acts)
          /\ hist' = [hist EXCEPT !.steps = @ + 1, !.acts = acts]

NextShare == TickShare

SpecShare == InitShare /\ [][NextShare]_vars

\* C21: in a tick in which share_tech raises a tech level of a probe, the
\* derived stats of that probe (max_speed, sensor_range, mining and
\* construction rates, compute capacity) afterwards are the values computed
\* from its new tech levels
C21_SharedTechRecomputesStats ==
    [][\A i \in 1..Len(uni.probes) :
          (\E d \in TechDomains :
              uni'.probes[i].tech_levels[d] > uni.probes[i].tech_levels[d])
            => stats_of(uni'.probes[i]) = derived_stats(uni'.probes[i].tech_levels)]_vars

\* ---------------------------------------------------------------------
\* Orders of and toward a destroyed probe
\* ---------------------------------------------------------------------

\* Bob and his child in one system, as loaded from a save in which one of
\* the two is DESTROYED; the other holds some stock
InitDead ==
    /\ \E seed \in Seeds : \E fl \in {FleetOf(seed, 2)} : \E dead \in 1..2 :
          ServerAt([fl.uni EXCEPT
                      !.probes[dead].status = "destroyed",
                      !.probes[dead].hull_integrity = 0,
                      !.probes[3 - dead].resources = [r \in Resources |-> BobStock]],
                   fl.rng, fl.lineage)
    /\ hist = hist_start(MaxSteps)

\* the orders of a probe toward the probe with id other
DeadActions(other) ==
    { act_wait,
      [act_wait EXCEPT !.type = "repair"],
      [act_wait EXCEPT !.type = "claim_system"],
      [act_wait EXCEPT !.type = "trade", !.target_probe = other,
                       !.target_resource = "iron", !.amount = BobStock \div 2],
      [act_wait EXCEPT !.type = "share_tech", !.target_probe = other,
                       !.research_domain = "mining"],
      [act_wait EXCEPT !.type = "send_message", !.target_probe = other,
                       !.message = "hello"] }

\* the execution of one order of table entry i, by itself; the response
\* records who acted
OrderOf ==
    /\ hist.steps < hist.budget
    /\ \E i \in 1..Len(uni.probes) : \E a \in DeadActions(uni.probes[3 - i].id) :
          /\ ApplyWorld(ExecAction(World, i, a))
          /\ hist' = [hist EXCEPT !.steps = @ + 1, !.acts = << a >>]
          /\ resp' = [kind |-> "order", tag |-> "", tick |-> uni.tick,
                      observations |-> << [actor |-> i] >>]
    /\ UNCHANGED g_pipe_snap

NextDead == OrderOf

SpecDead == InitDead /\ [][NextDead]_vars

\* C22: an order of a DESTROYED probe, and an order of another probe that
\* names a DESTROYED probe as its target (trade, share_tech, send_message),
\* is rejected without changing any state
C22_DestroyedIsNoTarget ==
    [][(resp'.kind = "order"
        /\ \/ uni.probes[resp'.observations[1].actor].status = "destroyed"
           \/ /\ hist'.acts[1].type \in {"trade", "share_tech", "send_message"}
              /\ \E t \in 1..Len(uni.probes) :
                    /\ uni.probes[t].id = hist'.acts[1].target_probe
                    /\ uni.probes[t].status = "destroyed")
          => /\ uni' = uni
             /\ g_pipe_society' = g_pipe_society
             /\ g_pipe_comm' = g_pipe_comm
             /\ g_pipe_repl' = g_pipe_repl
             /\ g_pipe_sys_cache' = g_pipe_sys_cache]_vars

\* ---------------------------------------------------------------------
\* Rejected orders and the observations of the tick
\* ---------------------------------------------------------------------

InitReject ==
    /\ \E seed \in Seeds : \E fl \in {FleetOf(seed, 2)} :
          ServerAt(fl.uni, fl.rng, fl.lineage)
    /\ hist = hist_start(MaxSteps)

\* orders that succeed and orders that fail: a survey from outside an orbit,
\* an invalid survey level, an orbit around a body of another system
RejectActions ==
    { act_wait,
      [act_wait EXCEPT !.type = "enter_orbit", !.target_body = SurveyPlanet],
      [act_wait EXCEPT !.type = "enter_orbit", !.target_body = PlanetOf(SYS_B)],
      [act_wait EXCEPT !.type = "survey", !.target_body = SurveyPlanet,
                       !.survey_level = 0],
      [act_wait EXCEPT !.type = "survey", !.target_body = SurveyPlanet,
                       !.survey_level = 5] }

\* probe_execute_action returns a failure for order a of probe p in sys
action_rejected(p, sys, a) ==
    \/ p.status = "destroyed"
    \/ /\ a.type = "enter_orbit"
       /\ \/ p.location_type \notin {"in_system", "orbiting"}
          \/ find_planet(sys, a.target_body) = uid_null
          \/ p.fuel_kg < FUEL_ORBIT_INSERT_BASE
    \/ /\ a.type = "survey"
       /\ find_planet(sys, a.target_body) # uid_null
       /\ \/ a.survey_level < 0 \/ a.survey_level > 4
          \/ /\ a.survey_level = 0
             /\ ~sys.planets[a.target_body].surveyed[0]
             /\ p.location_type \notin {"orbiting", "landed"}

TickReject ==
    /\ hist.steps < hist.budget
    /\ \E acts \in [1..Len(uni.probes) -> RejectActions] :
          /\ TickStep(acts)
          /\ hist' = [hist EXCEPT !.steps = @ + 1, !.acts = acts]

NextReject == TickReject

SpecReject == InitReject /\ [][NextReject]_vars

\* C23: when the order of a probe is rejected in a tick, the tick still runs
\* to completion for every probe (the tick counter advances and every probe
\* has its observation) and the observation of the rejected probe records
\* the error
C23_RejectionIsObserved ==
    [][\A i \in 1..Len(uni.probes) :
          (resp'.kind = "tick"
           /\ action_rejected(uni.probes[i], g_pipe_sys_cache[uni.probes[i].system_id],
                              hist'.acts[i]))
            => /\ uni'.tick = uni.tick + 1
               /\ Len(resp'.observations) = Len(uni'.probes)
               /\ "error" \in DOMAIN resp'.observations[i]]_vars

\* ---------------------------------------------------------------------
\* Trades in transit: Bob trades iron to a child that may have left
\* ---------------------------------------------------------------------

\* commands during which the probes give orders other than wait
MaxTradeSteps == 2

InitTransit ==
    /\ \E seed \in Seeds : \E fl \in {FleetOf(seed, 2)} :
          ServerAt([fl.uni EXCEPT !.probes[1].resources["iron"] = BobStock],
                   fl.rng, fl.lineage)
    /\ hist = hist_start(TRADE_TRANSIT_TICKS + MaxTradeSteps + 1)

\* Bob trades an amount he can afford or one he cannot; the child may leave
\* for the neighbouring system
TransitActions(i) ==
    IF hist.steps >= MaxTradeSteps THEN { act_wait }
    ELSE IF i = 1
    THEN { act_wait } \cup
         { [act_wait EXCEPT !.type = "trade", !.target_probe = uni.probes[2].id,
                            !.target_resource = "iron", !.amount = amt] :
               amt \in {BobStock \div 2 - 500, 2 * BobStock} }
    ELSE { act_wait,
           [act_wait EXCEPT !.type = "travel_to_system", !.target_system = SYS_B] }

TickTransit ==
    /\ hist.steps < hist.budget
    /\ \E a1 \in TransitActions(1), a2 \in TransitActions(2) :
       \E acts \in {<< a1, a2 >>} :
          /\ TickStep(acts)
          /\ hist' = [hist EXCEPT !.steps = @ + 1, !.acts = acts]

NextTransit == TickTransit

SpecTransit == InitTransit /\ [][NextTransit]_vars

\* the sum of the amounts of the trades with index in S
RECURSIVE SumAmounts(_, _)
SumAmounts(trades, S) ==
    IF S = {} THEN 0
    ELSE LET k == CHOOSE x \in S : TRUE
         IN trades[k].amount + SumAmounts(trades, S \ {k})

\* the trades accepted in a step, and the trades it delivers
trades_sent == (Len(g_pipe_society.trades) + 1)..Len(g_pipe_society'.trades)

trades_delivered ==
    { k \in 1..Len(g_pipe_society'.trades) :
        /\ g_pipe_society'.trades[k].status = "delivered"
        /\ k \in trades_sent \/ g_pipe_society.trades[k].status # "delivered" }

InitTerritory ==
    /\ \E seed \in Seeds : \E fl \in {FleetOf(seed, 2)} :
          ServerAt(fl.uni, fl.rng, fl.lineage)
    /\ hist = hist_start(MaxSteps + MaxClaims)

\* society_claim_system by a probe on a system; the response records the
\* call and the society before it
ClaimSystem ==
    /\ hist.steps < hist.budget
    /\ \E i \in 1..Len(uni.probes) : \E s \in Systems :
          /\ g_pipe_society' =
                society_claim_system(g_pipe_society, uni.probes[i].id, s, uni.tick)
          /\ resp' = [kind |-> "claim", tag |-> "", tick |-> uni.tick,
                      observations |-> << [claimer |-> i, system_id |-> s,
                                           before |-> g_pipe_society] >>]
    /\ hist' = [hist EXCEPT !.steps = @ + 1]
    /\ UNCHANGED << uni, rng, g_pipe_repl, g_pipe_lineage, g_pipe_comm,
                    g_pipe_events, g_pipe_inject, g_pipe_scenario, g_pipe_snap,
                    g_pipe_sys_cache, survey >>

\* society_revoke_claim by a probe on a system
RevokeClaim ==
    /\ hist.steps < hist.budget
    /\ \E i \in 1..Len(uni.probes) : \E s \in Systems :
          g_pipe_society' = society_revoke_claim(g_pipe_society, uni.probes[i].id, s)
    /\ resp' = [resp_ready EXCEPT !.kind = "revoke"]
    /\ hist' = [hist EXCEPT !.steps = @ + 1]
    /\ UNCHANGED << uni, rng, g_pipe_repl, g_pipe_lineage, g_pipe_comm,
                    g_pipe_events, g_pipe_inject, g_pipe_scenario, g_pipe_snap,
                    g_pipe_sys_cache, survey >>

NextTerritory == ClaimSystem \/ RevokeClaim

SpecTerritory == InitTerritory /\ [][NextTerritory]_vars

\* C25: after any sequence of claims and revocations every system has at
\* most one active claim, and a claim on a system that has an active claim
\* is rejected and leaves the claim table as it was
C25_OneActiveClaimPerSystem ==
    /\ \A s \in Systems : Cardinality(claims_on(g_pipe_society, s)) <= 1
    /\ resp.kind = "claim" =>
          (claims_on(resp.observations[1].before, resp.observations[1].system_id) # {}
              => g_pipe_society = resp.observations[1].before)

\* a claim has been rejected on a system that was claimed, revoked and
\* claimed again
C25_Witness ==
    /\ resp.kind = "claim"
    /\ claims_on(resp.observations[1].before, resp.observations[1].system_id) # {}
    /\ \E k \in 1..Len(g_pipe_society.claims) :
          /\ ~g_pipe_society.claims[k].active
          /\ g_pipe_society.claims[k].system_id = resp.observations[1].system_id

\* ---------------------------------------------------------------------
\* Voting: proposals, votes and resolve passes called in any order
\* ---------------------------------------------------------------------

VoteDeadlines == {1, 3}        \* deadlines a proposal is made with
VoteTicks == 0..MaxTick        \* ticks a resolve pass is called with

InitVote ==
    /\ \E seed \in Seeds : \E fl \in {FleetOf(seed, 2)} :
          ServerAt(fl.uni, fl.rng, fl.lineage)
    /\ hist = hist_start(MaxSteps)

\* society_propose by a probe with a deadline
Propose ==
    /\ hist.steps < hist.budget
    /\ \E i \in 1..Len(uni.probes) : \E d \in VoteDeadlines :
          g_pipe_society' =
              society_propose(g_pipe_society, uni.probes[i].id, "", uni.tick, d)
    /\ resp' = [resp_ready EXCEPT !.kind = "propose"]
    /\ hist' = [hist EXCEPT !.steps = @ + 1]
    /\ UNCHANGED << uni, rng, g_pipe_repl, g_pipe_lineage, g_pipe_comm,
                    g_pipe_events, g_pipe_inject, g_pipe_scenario, g_pipe_snap,
                    g_pipe_sys_cache, survey >>

\* society_vote by a probe on a proposal index, in range or not; the
\* response records the call and the society before it
Vote ==
    /\ hist.steps < hist.budget
    /\ \E i \in 1..Len(uni.probes) : \E idx \in -1..MaxProposals :
       \E favor \in BOOLEAN :
          /\ g_pipe_society' =
                society_vote(g_pipe_society, idx, uni.probes[i].id, favor, uni.tick)
          /\ resp' = [kind |-> "vote", tag |-> "", tick |-> uni.tick,
                      observations |-> << [voter_id |-> uni.probes[i].id,
                                           proposal_idx |-> idx,
                                           before |-> g_pipe_society] >>]
    /\ hist' = [hist EXCEPT !.steps = @ + 1]
    /\ UNCHANGED << uni, rng, g_pipe_repl, g_pipe_lineage, g_pipe_comm,
                    g_pipe_events, g_pipe_inject, g_pipe_scenario, g_pipe_snap,
                    g_pipe_sys_cache, survey >>

\* society_resolve_votes called with a tick; the response records the tick
Resolve ==
    /\ hist.steps < hist.budget
    /\ \E t \in VoteTicks :
          /\ g_pipe_society' = society_resolve_votes(g_pipe_society, t)
          /\ resp' = [resp_ready EXCEPT !.kind = "resolve", !.tick = t]
    /\ hist' = [hist EXCEPT !.steps = @ + 1]
    /\ UNCHANGED << uni, rng, g_pipe_repl, g_pipe_lineage, g_pipe_comm,
                    g_pipe_events, g_pipe_inject, g_pipe_scenario, g_pipe_snap,
                    g_pipe_sys_cache, survey >>

NextVote == Propose \/ Vote \/ Resolve

SpecVote == InitVote /\ [][NextVote]_vars

\* C26: a proposal leaves the open status only in a resolve pass whose tick
\* is at or after its deadline, and a resolved proposal stays resolved with
\* the result it was given, whatever is called afterwards
C26_ResolvedOnceAtDeadline ==
    [][/\ Len(g_pipe_society'.proposals) >= Len(g_pipe_society.proposals)
       /\ \A k \in 1..Len(g_pipe_society.proposals) :
            /\ (g_pipe_society.proposals[k].status = "open"
                /\ g_pipe_society'.proposals[k].status # "open")
                  => /\ resp'.kind = "resolve"
                     /\ resp'.tick >= g_pipe_society.proposals[k].deadline_tick
                     /\ g_pipe_society'.proposals[k].status = "resolved"
            /\ g_pipe_society.proposals[k].status = "resolved"
                  => /\ g_pipe_society'.proposals[k].status = "resolved"
                     /\ g_pipe_society'.proposals[k].result
                           = g_pipe_society.proposals[k].result]_vars

\* a resolve pass has closed one proposal in favour and left open another
\* whose deadline lies after the tick of the pass
C26_Witness ==
    /\ resp.kind = "resolve"
    /\ \E k, j \in 1..Len(g_pipe_society.proposals) :
          /\ g_pipe_society.proposals[k].status = "resolved"
          /\ g_pipe_society.proposals[k].result
          /\ g_pipe_society.proposals[k].deadline_tick <= resp.tick
          /\ g_pipe_society.proposals[j].status = "open"
          /\ g_pipe_society.proposals[j].deadline_tick > resp.tick

\* the voters recorded on proposal k of a society
voters_of(soc, k) ==
    {soc.proposals[k].votes[v].voter_id : v \in 1..Len(soc.proposals[k].votes)}

\* C27: every voter appears at most once among the votes of a proposal, and
\* a second vote by the same voter is rejected and leaves the votes and both
\* tallies as they were
C27_OneVotePerVoter ==
    /\ \A k \in 1..Len(g_pipe_society.proposals) :
          /\ Cardinality(voters_of(g_pipe_society, k))
                = Len(g_pipe_society.proposals[k].votes)
          /\ g_pipe_society.proposals[k].votes_for
                + g_pipe_society.proposals[k].votes_against
                = Len(g_pipe_society.proposals[k].votes)
    /\ (/\ resp.kind = "vote"
        /\ resp.observations[1].proposal_idx >= 0
        /\ resp.observations[1].proposal_idx
              < Len(resp.observations[1].before.proposals)
        /\ resp.observations[1].voter_id
              \in voters_of(resp.observations[1].before,
                            resp.observations[1].proposal_idx + 1))
          => g_pipe_society = resp.observations[1].before

\* a second vote by a voter on an open proposal with room for more votes has
\* been rejected
C27_Witness ==
    /\ resp.kind = "vote"
    /\ resp.observations[1].proposal_idx >= 0
    /\ resp.observations[1].proposal_idx < Len(resp.observations[1].before.proposals)
    /\ \E k \in {resp.observations[1].proposal_idx + 1} :
          /\ resp.observations[1].voter_id \in voters_of(resp.observations[1].before, k)
          /\ g_pipe_society.proposals[k].status = "open"
          /\ Len(g_pipe_society.proposals[k].votes) < MaxVotesPer
          /\ g_pipe_society.proposals[k].votes_for = 1

\* ---------------------------------------------------------------------
\* Journeys: Bob is given orders one at a time (travel, orbit, land,
\* launch, navigate, mine, survey, wait) and travel_tick moves him while
\* he is under way; he starts with a full tank or with fuel for two ticks
\* ---------------------------------------------------------------------

JourneyFuels == {5, BOB_INITIAL_FUEL_KG}

InitJourney ==
    /\ \E seed \in Seeds : \E fuel \in JourneyFuels :
          Boot([BootUni(seed) EXCEPT !.probes[1].fuel_kg = fuel])
    /\ hist = hist_start(MaxSteps + 3)

JourneyActions ==
    {[act_wait EXCEPT !.type = "travel_to_system", !.target_system = s] : s \in Systems}
    \cup {[act_wait EXCEPT !.type = t, !.target_body = PlanetOf(s)] :
             t \in {"enter_orbit", "land", "navigate_to_body", "survey"},
             s \in Systems}
    \cup {[act_wait EXCEPT !.type = t] : t \in {"launch", "mine", "wait"}}

\* one order of Bob, executed by itself; the response records the order
JourneyOrder ==
    /\ hist.steps < hist.budget
    /\ \E a \in JourneyActions :
          /\ ApplyWorld(ExecAction(World, 1, a))
          /\ hist' = [hist EXCEPT !.steps = @ + 1, !.acts = << a >>]
          /\ resp' = [resp_ready EXCEPT !.kind = "order"]
    /\ UNCHANGED g_pipe_snap

\* travel_tick on a traveling Bob
JourneyTick ==
    /\ hist.steps < hist.budget
    /\ uni.probes[1].status = "traveling"
    /\ \E t \in {travel_tick(uni.probes[1], rng)} :
          /\ uni' = [uni EXCEPT !.probes[1] = t.probe]
          /\ rng' = t.rng
    /\ resp' = [resp_ready EXCEPT !.kind = "travel_tick"]
    /\ hist' = [hist EXCEPT !.steps = @ + 1]
    /\ UNCHANGED << g_pipe_repl, g_pipe_lineage, g_pipe_comm, g_pipe_society,
                    g_pipe_events, g_pipe_inject, g_pipe_scenario, g_pipe_snap,
                    g_pipe_sys_cache, survey >>

NextJourney == JourneyOrder \/ JourneyTick

SpecJourney == InitJourney /\ [][NextJourney]_vars

\* C28 as stated: a TRAVELING probe is INTERSTELLAR, every travel tick
\* strictly reduces travel_remaining_ly, and no order given to a TRAVELING
\* probe changes its location
C28_TravelTickAlwaysAdvances ==
    [][/\ uni'.probes[1].status = "traveling"
            => uni'.probes[1].location_type = "interstellar"
       /\ resp'.kind = "travel_tick"
            => uni'.probes[1].travel_remaining_ly < uni.probes[1].travel_remaining_ly
       /\ (resp'.kind = "order" /\ uni.probes[1].status = "traveling")
            => uni'.probes[1].location_type = uni.probes[1].location_type]_vars

\* C28 as amended: a TRAVELING probe is INTERSTELLAR; a travel tick strictly
\* reduces travel_remaining_ly unless the probe lacks the fuel for the tick,
\* and then it leaves the probe DORMANT with the distance as it was; no
\* order given to a TRAVELING probe changes its location
C28_TravelTickAdvancesOrDrifts ==
    [][/\ uni'.probes[1].status = "traveling"
            => uni'.probes[1].location_type = "interstellar"
       /\ resp'.kind = "travel_tick"
            => \/ uni'.probes[1].travel_remaining_ly
                     < uni.probes[1].travel_remaining_ly
               \/ /\ uni'.probes[1].status = "dormant"
                  /\ uni'.probes[1].fuel_kg = 0
                  /\ uni'.probes[1].travel_remaining_ly
                        = uni.probes[1].travel_remaining_ly
       /\ (resp'.kind = "order" /\ uni.probes[1].status = "traveling")
            => uni'.probes[1].location_type = uni.probes[1].location_type]_vars

\* Bob, under way with part of the distance covered, has been given an
\* order that would move him were he in a system, and is still under way
C28_Witness ==
    /\ resp.kind = "order"
    /\ hist.acts[1].type \in {"navigate_to_body", "enter_orbit"}
    /\ uni.probes[1].status = "traveling"
    /\ uni.probes[1].location_type = "interstellar"
    /\ uni.probes[1].travel_remaining_ly < vec3_dist(SysPos(SYS_A), SysPos(SYS_B))

\* ---------------------------------------------------------------------
\* Voyages: Bob is given a bounded number of orders of any kind, and
\* travel_tick is called on him for as long as he is under way.  The tick
\* command calls travel_tick on every TRAVELING probe, so as long as ticks
\* are issued the call is made: weak fairness on TravelTick.
\* ---------------------------------------------------------------------

InitVoyage ==
    /\ \E seed \in Seeds : \E fuel \in JourneyFuels :
          Boot([BootUni(seed) EXCEPT !.probes[1].fuel_kg = fuel])
    /\ hist = hist_start(MaxSteps)

NextVoyage == JourneyOrder \/ TravelTick

SpecVoyage == InitVoyage /\ [][NextVoyage]_vars /\ WF_vars(TravelTick)

\* C29: a probe that is TRAVELING is, as ticks continue, eventually either
\* arrived (ACTIVE, IN_SYSTEM, travel_remaining_ly = 0) or DORMANT for want
\* of fuel; it does not stay TRAVELING forever
C29_TravelEnds ==
    (uni.probes[1].status = "traveling")
        ~> \/ /\ uni.probes[1].status = "active"
              /\ uni.probes[1].location_type = "in_system"
              /\ uni.probes[1].travel_remaining_ly = 0
           \/ /\ uni.probes[1].status = "dormant"
              /\ uni.probes[1].fuel_kg = 0

\* Bob has arrived at the other system by a travel tick, having been given
\* orders on the way
C29_Witness ==
    /\ resp.kind = "travel_tick"
    /\ uni.probes[1].status = "active"
    /\ uni.probes[1].location_type = "in_system"
    /\ uni.probes[1].travel_remaining_ly = 0
    /\ uni.probes[1].heading = SysPos(SYS_B)
    /\ hist.steps >= 2

\* ---------------------------------------------------------------------
\* Sends: comm_send_targeted from Bob to positions near and far, with
\* relays behind him and ahead of him
\* ---------------------------------------------------------------------

\* where Bob is, where relays are placed and where targets are: micro
\* light-years along the axis.  1369 and 1370 lie either side of half a
\* tick of delay from the origin, 100000 is 36.5 ticks from it
SendFrom == {0, 2 * LY}

SendRelayPlaces == {0, 15 * LY}

SendTargets == {1369, 1370, 100000, 20 * LY, 35 * LY}

InitSend ==
    /\ \E seed \in Seeds : \E at \in SendFrom : \E fl \in {FleetOf(seed, 2)} :
          ServerAt([fl.uni EXCEPT !.probes[1].destination = at,
                                  !.probes[1].heading = at],
                   fl.rng, fl.lineage)
    /\ hist = hist_start(MaxSteps)

\* comm_build_relay by a probe at a relay place
BuildRelay ==
    /\ Len(g_pipe_comm.relays) < MaxRelays
    /\ \E at \in SendRelayPlaces :
          g_pipe_comm' = comm_build_relay(g_pipe_comm,
                            [uni.probes[2] EXCEPT !.destination = at],
                            uni.probes[2].system_id, uni.tick)
    /\ resp' = [resp_ready EXCEPT !.kind = "relay"]
    /\ UNCHANGED << uni, rng, g_pipe_repl, g_pipe_lineage, g_pipe_society,
                    g_pipe_events, g_pipe_inject, g_pipe_scenario, g_pipe_snap,
                    g_pipe_sys_cache, survey, hist >>

\* comm_send_targeted by Bob to the second probe at a target position; the
\* response records the result, the two positions and the path found
SendTargeted ==
    /\ Len(g_pipe_comm.messages) < MaxMessages
    /\ \E to \in SendTargets :
       \E r \in {comm_send_targeted(g_pipe_comm, uni.probes[1], uni.probes[2].id,
                                    to, "", uni.tick)} :
          /\ g_pipe_comm' = r.cs
          /\ uni' = [uni EXCEPT !.probes[1] = r.probe]
          /\ resp' = [kind |-> "send", tag |-> "", tick |-> uni.tick,
                      observations |->
                          << [rc |-> r.rc, from |-> probe_pos(uni.probes[1]),
                              target_pos |-> to,
                              direct_range |-> comm_range(uni.probes[1]),
                              queued |-> Len(g_pipe_comm.messages)] >>]
    /\ UNCHANGED << rng, g_pipe_repl, g_pipe_lineage, g_pipe_society,
                    g_pipe_events, g_pipe_inject, g_pipe_scenario, g_pipe_snap,
                    g_pipe_sys_cache, survey, hist >>

NextSend == BuildRelay \/ SendTargeted

SpecSend == InitSend /\ [][NextSend]_vars

\* k is 365 times the distance d (micro light-years) rounded to the nearest
\* whole number, halves upward
IsRoundedDelay(k, d) ==
    LET whole == k - TICKS_PER_CYCLE * (d \div LY)   \* ticks beyond the whole ly
        part == TICKS_PER_CYCLE * (d % LY)           \* 365 times the rest of d
    IN /\ whole \in 0..TICKS_PER_CYCLE
       /\ 2 * (whole * LY - part) <= LY
       /\ 2 * (part - whole * LY) < LY

VitalsStart ==
    { [hull |-> WornHull, energy |-> 0, fuel |-> 0, iron |-> 0],
      [hull |-> 1000 - REPAIR_HULL_GAIN + 20, energy |-> REPAIR_ENERGY_COST,
       fuel |-> 5, iron |-> 2 * REPAIR_IRON_COST],
      [hull |-> 1000, energy |-> ENERGY_SURVEY_PER_TICK \div 2,
       fuel |-> FUEL_ORBIT_INSERT_BASE, iron |-> 0] }

InitVitals ==
    /\ \E seed \in Seeds : \E v \in VitalsStart :
          Boot([BootUni(seed) EXCEPT !.probes[1].hull_integrity = v.hull,
                                     !.probes[1].energy_joules = v.energy,
                                     !.probes[1].fuel_kg = v.fuel,
                                     !.probes[1].resources["iron"] = v.iron])
    /\ hist = hist_start(MaxSteps)

VitalsActions ==
    { act_wait,
      [act_wait EXCEPT !.type = "repair"],
      [act_wait EXCEPT !.type = "travel_to_system", !.target_system = SYS_B],
      [act_wait EXCEPT !.type = "enter_orbit", !.target_body = PlanetOf(SYS_A)],
      [act_wait EXCEPT !.type = "survey", !.target_body = PlanetOf(SYS_A)],
      [act_wait EXCEPT !.type = "send_message", !.target_probe = BOB_ID] }

TickVitals ==
    /\ hist.steps < hist.budget
    /\ \E a1 \in VitalsActions :
       \E acts \in {[i \in 1..Len(uni.probes) |-> IF i = 1 THEN a1 ELSE act_wait]} :
          /\ TickStep(acts)
          /\ hist' = [hist EXCEPT !.steps = @ + 1, !.acts = acts]

NextVitals == TickVitals \/ Inject

SpecVitals == InitVitals /\ [][NextVitals]_vars

C32_ReplicatingIsUnderWay ==
    \A i \in 1..Len(uni.probes) :
        uni.probes[i].status = "replicating"
            => /\ g_pipe_repl[i].active
               /\ g_pipe_repl[i].ticks_elapsed < g_pipe_repl[i].ticks_total

\* ---------------------------------------------------------------------
\* Mining runs: Bob has landed on the planet of his system with twice
\* what a replication costs of everything but iron, of which he holds the
\* cost or a tick of mining less; he mines, waits, launches and orders
\* replication
\* ---------------------------------------------------------------------

\* probe p once it has entered orbit of the planet and landed on it
Landed(p) ==
    exec_land([probe |-> InOrbit(p), sys |-> FreshSystem(SYS_A), survey |-> survey_zero],
              [act_wait EXCEPT !.type = "land", !.target_body = SurveyPlanet]).probe

\* iron one tick of Bob's mining on the planet yields
MineYield == (MINING_BASE_RATE * probe_init_bob.mining_rate
                 * planet_abundance(SurveyPlanet, "iron")) \div 1000

InitMine ==
    /\ \E seed \in Seeds : \E short \in {0, MineYield} :
          Boot([BootUni(seed) EXCEPT !.probes[1] =
                  [Landed(@) EXCEPT !.resources =
                      [r \in Resources |->
                          IF r = "iron" THEN REPL_COSTS[r] - short
                          ELSE 2 * REPL_COSTS[r]]]])
    /\ hist = hist_start(MaxSteps)

MineActions ==
    { act_wait,
      [act_wait EXCEPT !.type = "mine", !.target_resource = "iron"],
      [act_wait EXCEPT !.type = "replicate"],
      [act_wait EXCEPT !.type = "launch"] }

TickMine ==
    /\ hist.steps < hist.budget
    /\ \E a1 \in MineActions :
       \E acts \in {[i \in 1..Len(uni.probes) |-> IF i = 1 THEN a1 ELSE act_wait]} :
          /\ TickStep(acts)
          /\ hist' = [hist EXCEPT !.steps = @ + 1, !.acts = acts]

NextMine == TickMine

SpecMine == InitMine /\ [][NextMine]_vars

\* C33: a probe that has mined in an earlier tick and orders replication
\* while it holds the full cost begins to replicate in that tick: mining
\* does not leave it in a status that is not ACTIVE
C33_MinerCanReplicate ==
    [][(/\ resp'.kind = "tick"
        /\ uni'.tick = uni.tick + 1
        /\ hist'.acts[1].type = "replicate"
        /\ uni.probes[1].status = "mining"
        /\ \A r \in Resources : uni.probes[1].resources[r] >= REPL_COSTS[r])
          => /\ uni'.probes[1].status = "replicating"
             /\ g_pipe_repl'[1].active]_vars

\* ---------------------------------------------------------------------
\* Hails: Bob and his newborn child, side by side in the system of the
\* replication, send each other messages in ticks; Bob may leave
\* ---------------------------------------------------------------------

InitHail ==
    /\ \E seed \in Seeds : \E fl \in {FleetOf(seed, 2)} :
          ServerAt(fl.uni, fl.rng, fl.lineage)
    /\ hist = hist_start(MaxSteps)

HailActions(i) ==
    { act_wait,
      [act_wait EXCEPT !.type = "send_message",
                       !.target_probe = uni.probes[3 - i].id, !.message = "hello"] }
    \cup (IF i = 1
          THEN { [act_wait EXCEPT !.type = "travel_to_system", !.target_system = SYS_B] }
          ELSE {})

TickHail ==
    /\ hist.steps < hist.budget
    /\ \E a1 \in HailActions(1), a2 \in HailActions(2) :
       \E acts \in {<< a1, a2 >>} :
          /\ TickStep(acts)
          /\ hist' = [hist EXCEPT !.steps = @ + 1, !.acts = acts]

NextHail == TickHail

SpecHail == InitHail /\ [][NextHail]_vars

\* the two probes are at the same place: the same system, the same kind of
\* location and body, the same coordinates, neither under way
SamePlace(p, q) ==
    /\ p.system_id = q.system_id
    /\ p.body_id = q.body_id
    /\ p.location_type = q.location_type
    /\ p.heading = q.heading
    /\ p.status # "traveling" /\ q.status # "traveling"

\* the messages a step queues
msgs_sent == (Len(g_pipe_comm.messages) + 1)..Len(g_pipe_comm'.messages)

\* C34: a send_message order between two probes at the same place, with the
\* energy for it and room in the queue, queues a message, and every message
\* queued between two probes at the same place arrives in the tick it is
\* sent (delay 0)
C34_SamePlaceDelayZero ==
    [][resp'.kind = "tick" =>
        \A i \in 1..Len(uni.probes) :
            (/\ hist'.acts[i].type = "send_message"
             /\ uni.probes[i].status # "destroyed"
             /\ uni.probes[i].energy_joules >= COMM_ENERGY_TARGETED
             /\ SamePlace(uni.probes[i], uni.probes[3 - i])
             /\ Len(g_pipe_comm'.messages) < MaxMessages)
               => \E k \in msgs_sent :
                     /\ g_pipe_comm'.messages[k].sender_id = uni.probes[i].id
                     /\ g_pipe_comm'.messages[k].target_id = uni.probes[3 - i].id
                     /\ g_pipe_comm'.messages[k].arrival_tick
                            = g_pipe_comm'.messages[k].sent_tick]_vars

\* C35: a snapshot taken under a tag stays restorable under that tag, with
\* exactly the state it captured, until the next snapshot under the same
\* tag, however many snapshots are taken under other tags in between
C35_SnapshotKeptUnderItsTag ==
    \A tag \in Tags :
        hist.at_snapshot[tag].taken
            => /\ snap_find(tag) > 0
               /\ g_pipe_snap[snap_find(tag)]
                      = snapshot_take(hist.at_snapshot[tag].uni, tag)

\* ---------------------------------------------------------------------
\* Lineage: Bob replicates from the first tick on; snapshots are taken in
\* the first commands of the run and restored once the child is born
\* ---------------------------------------------------------------------

InitLineage ==
    /\ \E seed \in Seeds :
          Boot([BootUni(seed) EXCEPT !.probes[1].resources = REPL_COSTS])
    /\ hist = hist_start(REPL_BASE_TICKS + MaxSteps)

TickLineage ==
    /\ hist.steps < hist.budget
    /\ \E acts \in {[i \in 1..Len(uni.probes) |->
                        IF i = 1 THEN [act_wait EXCEPT !.type = "replicate"]
                        ELSE act_wait]} :
          /\ TickStep(acts)
          /\ hist' = [hist EXCEPT !.steps = @ + 1, !.acts = acts]

SnapshotEarly == hist.steps < 2 /\ Snapshot

RestoreLate == hist.steps >= REPL_BASE_TICKS /\ Restore

NextLineage == TickLineage \/ SnapshotEarly \/ RestoreLate

SpecLineage == InitLineage /\ [][NextLineage]_vars

\* C36: at every point of a run, after a restore too, every lineage entry
\* names as child a probe of the table, and every probe of generation 1 or
\* more has exactly one lineage entry naming it as child
C36_LineageMatchesTable ==
    /\ \A k \in 1..Len(g_pipe_lineage) :
          \E i \in 1..Len(uni.probes) :
              uni.probes[i].id = g_pipe_lineage[k].child_id
    /\ \A i \in 1..Len(uni.probes) :
          uni.probes[i].generation >= 1
             => Cardinality({ k \in 1..Len(g_pipe_lineage) :
                                g_pipe_lineage[k].child_id = uni.probes[i].id }) = 1

\* the claims of the society that are active
active_claims(soc) == {k \in 1..Len(soc.claims) : soc.claims[k].active}

\* C37: a claim on a system without an active claim succeeds whenever fewer
\* claims than the table holds are active: a revoked claim frees its place,
\* so claiming and revoking over and over never makes claiming impossible
C37_RevokeFreesCapacity ==
    resp.kind = "claim" =>
        LET before == resp.observations[1].before
            s == resp.observations[1].system_id
        IN (/\ claims_on(before, s) = {}
            /\ Cardinality(active_claims(before)) < MaxClaims)
              => \E k \in claims_on(g_pipe_society, s) :
                    g_pipe_society.claims[k].claimer_id
                        = uni.probes[resp.observations[1].claimer].id

\* ---------------------------------------------------------------------
\* Teaching: share_tech orders between Bob and his child, one at a time
\* ---------------------------------------------------------------------

\* the execution of one share_tech order of table entry i toward the other
\* probe, by itself; the response records who acted
ShareOrder ==
    /\ hist.steps < hist.budget
    /\ \E i \in 1..Len(uni.probes) : \E a \in ShareActions(i, 3 - i) \ {act_wait} :
          /\ ApplyWorld(ExecAction(World, i, a))
          /\ hist' = [hist EXCEPT !.steps = @ + 1, !.acts = << a >>]
          /\ resp' = [kind |-> "order", tag |-> "", tick |-> uni.tick,
                      observations |-> << [actor |-> i] >>]
    /\ UNCHANGED g_pipe_snap

NextTeach == ShareOrder

SpecTeach == InitShare /\ [][NextTeach]_vars

\* C38: a share_tech order that does not advance the receiver (the sender's
\* level in the domain is not above the receiver's) leaves both probes as
\* they were, their trust in each other included
C38_FailedShareNoTrust ==
    [][(/\ resp'.kind = "order"
        /\ hist'.acts[1].type = "share_tech"
        /\ LET i == resp'.observations[1].actor
               d == hist'.acts[1].research_domain
           IN uni.probes[i].tech_levels[d] <= uni.probes[3 - i].tech_levels[d])
          => uni'.probes = uni.probes]_vars

\* ---------------------------------------------------------------------
\* Relay sites: Bob starts a relay satellite and may leave for the
\* neighbouring system before it completes
\* ---------------------------------------------------------------------

InitSite ==
    /\ \E seed \in Seeds : Boot(BootUni(seed))
    /\ hist = hist_start(RELAY_BASE_TICKS + MaxSteps)

\* Bob's orders: in his first commands he may start a relay satellite or
\* set out for the neighbouring system, afterwards he waits
SiteActions ==
    IF hist.steps < MaxSteps
    THEN { act_wait,
           [act_wait EXCEPT !.type = "build_structure",
                            !.structure_type = STRUCT_RELAY_SATELLITE],
           [act_wait EXCEPT !.type = "travel_to_system", !.target_system = SYS_B] }
    ELSE { act_wait }

TickSite ==
    /\ hist.steps < hist.budget
    /\ \E a1 \in SiteActions :
       \E acts \in {[i \in 1..Len(uni.probes) |-> IF i = 1 THEN a1 ELSE act_wait]} :
          /\ TickStep(acts)
          /\ hist' = [hist EXCEPT !.steps = @ + 1, !.acts = acts]

NextSite == TickSite

SpecSite == InitSite /\ [][NextSite]_vars

\* C39: the relay registered when a relay satellite completes lies at the
\* position of the system in which the structure was started, wherever its
\* builder is by then
C39_RelayAtItsSystem ==
    \A j \in 1..Len(g_pipe_comm.relays) :
        g_pipe_comm.relays[j].position = SysPos(g_pipe_comm.relays[j].system_id)

\* ---------------------------------------------------------------------
\* Ballots: Bob proposes and votes in ticks at the start of the run and
\* around the deadline of a proposal made at the start; a snapshot is taken
\* before the first tick and another once the deadline has come, and each
\* is restored once the other has been taken
\* ---------------------------------------------------------------------

InitBallot ==
    /\ \E seed \in Seeds : Boot(BootUni(seed))
    /\ hist = hist_start(VOTE_DEADLINE_TICKS + MaxSteps + 2)

\* the ticks at which Bob gives orders
BallotTime == uni.tick <= 1 \/ uni.tick >= VOTE_DEADLINE_TICKS - 1

BallotActions ==
    IF BallotTime
    THEN { act_wait,
           [act_wait EXCEPT !.type = "propose"],
           [act_wait EXCEPT !.type = "vote", !.proposal_idx = 0, !.vote_favor = TRUE] }
    ELSE { act_wait }

TickBallot ==
    /\ hist.steps < hist.budget
    /\ \E a1 \in BallotActions :
       \E acts \in {[i \in 1..Len(uni.probes) |-> IF i = 1 THEN a1 ELSE act_wait]} :
          /\ TickStep(acts)
          /\ hist' = [hist EXCEPT !.steps = @ + 1, !.acts = acts]

\* snapshot a as the first command of the run
SnapshotStart == hist.steps = 0 /\ Snapshot /\ resp'.tag = "a"

\* snapshot b in the tick of the deadline of a proposal of tick 0
SnapshotDue ==
    /\ uni.tick = VOTE_DEADLINE_TICKS /\ g_pipe_snap[1].valid /\ ~g_pipe_snap[2].valid
    /\ Snapshot /\ resp'.tag = "b"

\* restore a once snapshot b has been taken
RestoreStart ==
    /\ uni.tick >= VOTE_DEADLINE_TICKS /\ g_pipe_snap[2].valid
    /\ Restore /\ resp'.tag = "a"

\* restore b after the first tick of the restored run
RestoreDue ==
    /\ uni.tick = 1 /\ g_pipe_snap[2].valid
    /\ Restore /\ resp'.tag = "b"

NextBallot == TickBallot \/ SnapshotStart \/ SnapshotDue \/ RestoreStart \/ RestoreDue

SpecBallot == InitBallot /\ [][NextBallot]_vars

\* C40: no proposal holds a vote whose vote tick is at or after the
\* proposal's deadline, so that the resolved result counts only votes cast
\* before the deadline
C40_NoVoteAfterDeadline ==
    \A k \in 1..Len(g_pipe_society.proposals) :
        \A v \in 1..Len(g_pipe_society.proposals[k].votes) :
            g_pipe_society.proposals[k].votes[v].vote_tick
                < g_pipe_society.proposals[k].deadline_tick

====
